---- MODULE Spec2Model ----
(***************************************************************************)
(* A model of the fluent_builder crate (src/src/imp.rs): the builder's     *)
(* State / Method slot, the composition combinators Apply and              *)
(* StatefulApply, the storage conversions, and resolution.                 *)
(*                                                                         *)
(* Closures are opaque to the library, so they are modelled freely: a      *)
(* TValue is the sequence of closure invocations that produced it.  An     *)
(* explicit value is a one-element sequence holding a literal; a default   *)
(* constructor d called with seed s yields <<[f |-> d, s |-> s]>>; a step  *)
(* f called with seed s on value v yields v \o <<[f |-> f, s |-> s]>>.     *)
(* Two results are equal exactly when the same closures were run with the  *)
(* same arguments in the same order.                                       *)
(***************************************************************************)
EXTENDS Naturals, Sequences, FiniteSets, TLC

\* Number of builder operations a client performs between construction and
\* into_value.
MaxOps == 3

\* The seeds (TSeed) a client passes; NoSeed stands for the unit seed ().
Seeds == {"s1", "s2"}
NoSeed == "()"
\* By-value step closures, by-mutation step closures, default constructors.
Fns == {"f1"}
Muts == {"m1", "m2"}
DefaultFns == {"d1", "d2"}

Tok(f, s) == [f |-> f, s |-> s]
\* The explicit values (TValue) a client passes to value / from_value.
Values == {<<Tok("v1", "lit")>>, <<Tok("v2", "lit")>>}

Stacks == {"Stack", "Override"}
Storages == {"Inline", "Boxed", "Shared"}

VARIABLES
    facade,     \* "FluentBuilder" or "StatefulFluentBuilder"
    TStack,     \* the stacking policy type parameter
    pc,         \* "new", "live", "done" or "panic"
    builder,    \* the builder the client owns
    ret,        \* what the last into_value / try_into_value returned
    calls,      \* every closure invocation so far, in order
    hist        \* the operations called so far, in order

vars == <<facade, TStack, pc, builder, ret, calls, hist>>

(***************************************************************************)
(* Option, State, closures                                                 *)
(***************************************************************************)
None == [kind |-> "None"]

SomeOf(x) == [some |-> TRUE, x |-> x]
NoneOf == [some |-> FALSE, x |-> "none"]

State_Value(v) == [tag |-> "Value", v |-> v]
State_Seed(s) == [tag |-> "Seed", s |-> s]

\* A closure handed to the library.  sig says what it takes:
\*   "seeded"      a user closure taking (TSeed, TValue) or (TSeed, &mut TValue)
\*   "plain"       a user closure taking (TValue) or (&mut TValue)
\*   "ignore_seed" the library's move |_, value| (next.0)(value) around a
\*                 plain closure
Closure(f, sig) == [f |-> f, sig |-> sig]

\* ByValue(c) / ByRefMut(c): a step closure tagged with how it takes the value.
ByValue(c) == [mode |-> "ByValue", c |-> c]
ByRefMut(c) == [mode |-> "ByRefMut", c |-> c]

\* Running a user closure that returns the new value.
CallFn(f, seedArg, v) == Append(v, Tok(f, seedArg))
\* Running a user closure that mutates the value in place: the value after it.
CallMut(f, seedArg, v) == Append(v, Tok(f, seedArg))

\* The seed argument the user closure behind c receives when c is called
\* with (seed, value).
SeenSeed(c, seed) ==
    CASE c.sig = "seeded" -> seed
      [] c.sig = "ignore_seed" -> NoSeed

(***************************************************************************)
(* Composition combinators                                                 *)
(***************************************************************************)
\* The outcome of Method::apply(&mut self, value): the returned value (or a
\* panic), self as the call left it, and the closures that ran.
Returned(self, v, ran) == [fault |-> FALSE, value |-> v, self |-> self, ran |-> ran]
Panicked(self, ran) == [fault |-> TRUE, value |-> <<>>, self |-> self, ran |-> ran]

StatefulApply_new(seed, previous, next) ==
    [kind |-> "StatefulApply", seed |-> SomeOf(seed), previous |-> previous,
     next |-> SomeOf(next), TNextMethod |-> next.mode]

Apply_new(previous, next) ==
    [kind |-> "Apply", inner |-> SomeOf(StatefulApply_new(NoSeed, previous, next)),
     TNextMethod |-> next.mode]

take_next(self) ==
    [fault |-> ~self.next.some,
     next |-> self.next.x,
     self_sans_next |-> [self EXCEPT !.next = SomeOf(NoSeed)]]

\* Mutant: the replacement closure is not stored.
set_next_forgets(self, next) == [self EXCEPT !.next = NoneOf]

set_next(self, next) == [self EXCEPT !.next = SomeOf(next)]

BoxedMethod(m) == [kind |-> "BoxedMethod", inner |-> m]
SharedMethod(m) == [kind |-> "SharedMethod", inner |-> m]

RECURSIVE apply(_, _)

\* Mutant: the previous Method is passed over, the value handed on as it is.
apply_previous_skips(previous, value) == Returned(previous, value, <<>>)

\* previous.apply(value) for self.previous: Option<TPreviousMethod>
apply_previous(previous, value) ==
    IF previous.kind = "None"
    THEN Returned(previous, value, <<>>)
    ELSE apply(previous, value)

StatefulApply_apply_ByValue(self, value) ==
    IF ~self.seed.some THEN Panicked(self, <<>>)
    ELSE IF ~self.next.some THEN Panicked([self EXCEPT !.seed = NoneOf], <<>>)
    ELSE LET seed == self.seed.x
             next == self.next.x
             p == apply_previous(self.previous, value)
             after == [self EXCEPT !.seed = NoneOf, !.next = NoneOf,
                                   !.previous = p.self]
             arg == SeenSeed(next.c, seed)
         IN  IF p.fault THEN Panicked(after, p.ran)
             ELSE Returned(after, CallFn(next.c.f, arg, p.value),
                           Append(p.ran, Tok(next.c.f, arg)))

\* Mutant: the new step runs before the previous Method (last-added first).
StatefulApply_apply_ByRefMut_lifo(self, value) ==
    IF ~self.seed.some THEN Panicked(self, <<>>)
    ELSE IF ~self.next.some THEN Panicked([self EXCEPT !.seed = NoneOf], <<>>)
    ELSE LET seed == self.seed.x
             next == self.next.x
             arg == SeenSeed(next.c, seed)
             p == apply_previous(self.previous, CallMut(next.c.f, arg, value))
             after == [self EXCEPT !.seed = NoneOf, !.next = NoneOf,
                                   !.previous = p.self]
         IN  IF p.fault THEN Panicked(after, <<Tok(next.c.f, arg)>> \o p.ran)
             ELSE Returned(after, p.value, <<Tok(next.c.f, arg)>> \o p.ran)

\* Mutant: the closure mutates a copy; the value before it is returned.
StatefulApply_apply_ByRefMut_stale(self, value) ==
    IF ~self.seed.some THEN Panicked(self, <<>>)
    ELSE IF ~self.next.some THEN Panicked([self EXCEPT !.seed = NoneOf], <<>>)
    ELSE LET seed == self.seed.x
             next == self.next.x
             p == apply_previous(self.previous, value)
             after == [self EXCEPT !.seed = NoneOf, !.next = NoneOf,
                                   !.previous = p.self]
             arg == SeenSeed(next.c, seed)
         IN  IF p.fault THEN Panicked(after, p.ran)
             ELSE Returned(after, p.value, Append(p.ran, Tok(next.c.f, arg)))

StatefulApply_apply_ByRefMut(self, value) ==
    IF ~self.seed.some THEN Panicked(self, <<>>)
    ELSE IF ~self.next.some THEN Panicked([self EXCEPT !.seed = NoneOf], <<>>)
    ELSE LET seed == self.seed.x
             next == self.next.x
             p == apply_previous(self.previous, value)
             after == [self EXCEPT !.seed = NoneOf, !.next = NoneOf,
                                   !.previous = p.self]
             arg == SeenSeed(next.c, seed)
         IN  IF p.fault THEN Panicked(after, p.ran)
             ELSE Returned(after, CallMut(next.c.f, arg, p.value),
                           Append(p.ran, Tok(next.c.f, arg)))

Apply_apply_ByValue(self, value) ==
    IF ~self.inner.some THEN Panicked(self, <<>>)
    ELSE LET taken == [self EXCEPT !.inner = NoneOf]
             tn == take_next(self.inner.x)
         IN  IF tn.fault THEN Panicked(taken, <<>>)
             ELSE LET wrapper == ByValue(Closure(tn.next.c.f, "ignore_seed"))
                      r == StatefulApply_apply_ByValue(
                               set_next(tn.self_sans_next, wrapper), value)
                  IN  [r EXCEPT !.self = taken]

\* Mutant: the inner method is borrowed, not taken out of self.
Apply_apply_ByRefMut_reusable(self, value) ==
    IF ~self.inner.some THEN Panicked(self, <<>>)
    ELSE LET tn == take_next(self.inner.x)
         IN  IF tn.fault THEN Panicked(self, <<>>)
             ELSE LET wrapper == ByRefMut(Closure(tn.next.c.f, "ignore_seed"))
                      r == StatefulApply_apply_ByRefMut(
                               set_next(tn.self_sans_next, wrapper), value)
                  IN  [r EXCEPT !.self = self]

Apply_apply_ByRefMut(self, value) ==
    IF ~self.inner.some THEN Panicked(self, <<>>)
    ELSE LET taken == [self EXCEPT !.inner = NoneOf]
             tn == take_next(self.inner.x)
         IN  IF tn.fault THEN Panicked(taken, <<>>)
             ELSE LET wrapper == ByRefMut(Closure(tn.next.c.f, "ignore_seed"))
                      r == StatefulApply_apply_ByRefMut(
                               set_next(tn.self_sans_next, wrapper), value)
                  IN  [r EXCEPT !.self = taken]

BoxedMethod_apply(self, value) ==
    LET r == apply(self.inner, value)
    IN  [r EXCEPT !.self = [self EXCEPT !.inner = r.self]]

\* Mutant: the shared container returns the value without applying its Method.
SharedMethod_apply_identity(self, value) == Returned(self, value, <<>>)

SharedMethod_apply(self, value) ==
    LET r == apply(self.inner, value)
    IN  [r EXCEPT !.self = [self EXCEPT !.inner = r.self]]

\* Method::apply for Inline returns the value as it is.  Inline is an enum
\* without variants: a builder with nothing accumulated holds None in its
\* Option<Method>, no Method of this type is ever built, and so Method::apply
\* below has no case for it.
Inline_apply(self, value) == Returned(self, value, <<>>)

\* Method::apply, dispatched on the method's type.
apply(self, value) ==
    CASE self.kind = "BoxedMethod" -> BoxedMethod_apply(self, value)
      [] self.kind = "SharedMethod" -> SharedMethod_apply(self, value)
      [] self.kind = "Apply" /\ self.TNextMethod = "ByValue" ->
            Apply_apply_ByValue(self, value)
      [] self.kind = "Apply" /\ self.TNextMethod = "ByRefMut" ->
            Apply_apply_ByRefMut(self, value)
      [] self.kind = "StatefulApply" /\ self.TNextMethod = "ByValue" ->
            StatefulApply_apply_ByValue(self, value)
      [] self.kind = "StatefulApply" /\ self.TNextMethod = "ByRefMut" ->
            StatefulApply_apply_ByRefMut(self, value)

(***************************************************************************)
(* StatefulFluentBuilder                                                   *)
(***************************************************************************)
\* StatefulFluentBuilder::new over a StatefulFluentBuilderInner; TStorage is
\* the storage type parameter ("Apply" / "StatefulApply" once a step has
\* been added inline).
Builder(state, fluent_method, storage) ==
    [state |-> state, fluent_method |-> fluent_method, TStorage |-> storage]

\* The client's variable after the builder was moved out of it.
Moved == Builder([tag |-> "Moved"], None, "-")

from_value(v, storage) == Builder(State_Value(v), None, storage)

from_seed(seed, storage) == Builder(State_Seed(seed), None, storage)

\* Mutant: value leaves a seed the builder holds in place.
value_keeps_seed(self, v) ==
    Builder(IF self.state.tag = "Seed" THEN self.state ELSE State_Value(v),
            None, self.TStorage)

\* Mutant: value keeps the accumulated Method.
value_keeps_method(self, v) ==
    Builder(State_Value(v), self.fluent_method, self.TStorage)

value(self, v) == Builder(State_Value(v), None, self.TStorage)

from_fluent(seed, f) ==
    Builder(State_Seed(seed), Apply_new(None, ByValue(Closure(f, "plain"))), "Apply")

from_fluent_mut(seed, m) ==
    Builder(State_Seed(seed), Apply_new(None, ByRefMut(Closure(m, "plain"))), "Apply")

\* Mutant: boxed loses the accumulated Method.
boxed_drops_method(self) == Builder(self.state, None, "Boxed")

boxed(self) ==
    Builder(self.state,
            IF self.fluent_method.kind = "None" THEN None
            ELSE BoxedMethod(self.fluent_method),
            "Boxed")

\* Mutant: a Method that is already boxed or shared is lost when shared again.
shared_drops_wrapped(self) ==
    Builder(self.state,
            IF self.fluent_method.kind \in {"None", "BoxedMethod", "SharedMethod"}
            THEN None
            ELSE SharedMethod(self.fluent_method),
            "Shared")

shared(self) ==
    Builder(self.state,
            IF self.fluent_method.kind = "None" THEN None
            ELSE SharedMethod(self.fluent_method),
            "Shared")

Shared_from_fluent(seed, f) == shared(from_fluent(seed, f))
Shared_from_fluent_mut(seed, m) == shared(from_fluent_mut(seed, m))
\* Mutant: the first step is built as a stacked step that takes the seed itself.
Boxed_from_fluent_stacked(seed, f) ==
    boxed(Builder(State_Seed(seed),
                  StatefulApply_new(seed, None, ByValue(Closure(f, "seeded"))),
                  "StatefulApply"))

Boxed_from_fluent(seed, f) == boxed(from_fluent(seed, f))
Boxed_from_fluent_mut(seed, m) == boxed(from_fluent_mut(seed, m))

\* default_value(seed): the default constructor is a closure like any other.
CallDefault(default_value, seed) ==
    <<Tok(default_value.f, SeenSeed(default_value, seed))>>

\* Mutant: the default constructor is not given the stored seed.
into_value_unit_seed(self, default_value) ==
    LET fromSeed == self.state.tag = "Seed"
        default == IF fromSeed THEN CallDefault(default_value, NoSeed)
                   ELSE self.state.v
        ran0 == IF fromSeed THEN default ELSE <<>>
    IN  IF self.fluent_method.kind = "None"
        THEN [fault |-> FALSE, value |-> default, ran |-> ran0]
        ELSE LET r == apply(self.fluent_method, default)
             IN  [fault |-> r.fault, value |-> r.value, ran |-> ran0 \o r.ran]

\* Mutant: the default constructor is called although a value is held.
into_value_always_default(self, default_value) ==
    LET default == CallDefault(default_value,
                               IF self.state.tag = "Seed" THEN self.state.s ELSE NoSeed)
    IN  IF self.fluent_method.kind = "None"
        THEN [fault |-> FALSE, value |-> default, ran |-> default]
        ELSE LET r == apply(self.fluent_method, default)
             IN  [fault |-> r.fault, value |-> r.value, ran |-> default \o r.ran]

\* Mutant: the Method runs first, the default constructor after it.
into_value_default_last(self, default_value) ==
    IF self.state.tag = "Value" \/ self.fluent_method.kind = "None"
    THEN LET fromSeed == self.state.tag = "Seed"
             default == IF fromSeed THEN CallDefault(default_value, self.state.s)
                        ELSE self.state.v
         IN  IF self.fluent_method.kind = "None"
             THEN [fault |-> FALSE, value |-> default,
                   ran |-> IF fromSeed THEN default ELSE <<>>]
             ELSE LET r == apply(self.fluent_method, default)
                  IN  [fault |-> r.fault, value |-> r.value, ran |-> r.ran]
    ELSE LET r == apply(self.fluent_method, <<>>)
             default == CallDefault(default_value, self.state.s)
         IN  [fault |-> r.fault, value |-> r.value \o default, ran |-> r.ran \o default]

\* into_value: what it returns (or a panic) and the closures it ran.
into_value(self, default_value) ==
    LET fromSeed == self.state.tag = "Seed"
        default == IF fromSeed THEN CallDefault(default_value, self.state.s)
                   ELSE self.state.v
        ran0 == IF fromSeed THEN default ELSE <<>>
    IN  IF self.fluent_method.kind = "None"
        THEN [fault |-> FALSE, value |-> default, ran |-> ran0]
        ELSE LET r == apply(self.fluent_method, default)
             IN  [fault |-> r.fault, value |-> r.value, ran |-> ran0 \o r.ran]

\* Mutant: a held value is returned without the pending Method applied.
try_into_value_skips_method(self) ==
    IF self.state.tag = "Value"
    THEN [variant |-> "Value", fault |-> FALSE, value |-> self.state.v,
          builder |-> Moved, ran |-> <<>>]
    ELSE [variant |-> "Builder", fault |-> FALSE, value |-> <<>>,
          builder |-> Builder(self.state, self.fluent_method, self.TStorage),
          ran |-> <<>>]

\* Mutant: the builder handed back has lost its pending Method.
try_into_value_drops_method(self) ==
    IF self.state.tag = "Value"
    THEN IF self.fluent_method.kind = "None"
         THEN [variant |-> "Value", fault |-> FALSE, value |-> self.state.v,
               builder |-> Moved, ran |-> <<>>]
         ELSE LET r == apply(self.fluent_method, self.state.v)
              IN  [variant |-> "Value", fault |-> r.fault, value |-> r.value,
                   builder |-> Moved, ran |-> r.ran]
    ELSE [variant |-> "Builder", fault |-> FALSE, value |-> <<>>,
          builder |-> Builder(self.state, None, self.TStorage),
          ran |-> <<>>]

\* Mutant: the value is handed out and the builder is handed back as well.
try_into_value_keeps_builder(self) ==
    IF self.state.tag = "Value"
    THEN IF self.fluent_method.kind = "None"
         THEN [variant |-> "Value", fault |-> FALSE, value |-> self.state.v,
               builder |-> self, ran |-> <<>>]
         ELSE LET r == apply(self.fluent_method, self.state.v)
              IN  [variant |-> "Value", fault |-> r.fault, value |-> r.value,
                   builder |-> self, ran |-> r.ran]
    ELSE [variant |-> "Builder", fault |-> FALSE, value |-> <<>>,
          builder |-> Builder(self.state, self.fluent_method, self.TStorage),
          ran |-> <<>>]

\* try_into_value: TryIntoValue::Value(value) or TryIntoValue::Builder(builder).
try_into_value(self) ==
    IF self.state.tag = "Value"
    THEN IF self.fluent_method.kind = "None"
         THEN [variant |-> "Value", fault |-> FALSE, value |-> self.state.v,
               builder |-> Moved, ran |-> <<>>]
         ELSE LET r == apply(self.fluent_method, self.state.v)
              IN  [variant |-> "Value", fault |-> r.fault, value |-> r.value,
                   builder |-> Moved, ran |-> r.ran]
    ELSE [variant |-> "Builder", fault |-> FALSE, value |-> <<>>,
          builder |-> Builder(self.state, self.fluent_method, self.TStorage),
          ran |-> <<>>]

\* The closures handed to stack: move |previous_fluent_method|
\* StatefulApply::new(seed, previous_fluent_method, next), and
\* |previous_fluent_method| Apply::new(previous_fluent_method, next).
StatefulStacker(seed, next) == [stateful |-> TRUE, seed |-> seed, next |-> next]
Stacker(next) == [stateful |-> FALSE, seed |-> NoSeed, next |-> next]

\* Mutant: the stacker is not given the previous Method.
CallStacker_drops_previous(fluent_stacker, previous_fluent_method) ==
    IF fluent_stacker.stateful
    THEN StatefulApply_new(fluent_stacker.seed, None, fluent_stacker.next)
    ELSE Apply_new(None, fluent_stacker.next)

\* fluent_stacker(previous_fluent_method)
CallStacker(fluent_stacker, previous_fluent_method) ==
    IF fluent_stacker.stateful
    THEN StatefulApply_new(fluent_stacker.seed, previous_fluent_method,
                           fluent_stacker.next)
    ELSE Apply_new(previous_fluent_method, fluent_stacker.next)

\* The storage types whose Method is not Send: BoxedMethod is a
\* Box<Method<TValue>> without the Send bound, and an Apply / StatefulApply
\* is Send only if its TPreviousMethod is.  (The caller's closures, seeds
\* and values are taken to be Send.)
NotSendStorages == {"Boxed", "Apply<Boxed>", "StatefulApply<Boxed>"}

\* where TStorage::Method: Send
MethodIsSend(self) == self.TStorage \notin NotSendStorages

\* Apply<TValue, TStorage::Method, _> / StatefulApply<_, TValue,
\* TStorage::Method, _>: the storage type after stacking on self.
StackedOn(self, storage) ==
    IF MethodIsSend(self) THEN storage
    ELSE IF storage = "Apply" THEN "Apply<Boxed>" ELSE "StatefulApply<Boxed>"

stack(self, fluent_stacker, storage) ==
    Builder(self.state, CallStacker(fluent_stacker, self.fluent_method),
            StackedOn(self, storage))

\* Mutant: stacking a step replaces the State by the step's seed.
Stack_fluent_resets_state(self, seed, f) ==
    Builder(State_Seed(seed),
            StatefulApply_new(seed, self.fluent_method, ByValue(Closure(f, "seeded"))),
            "StatefulApply")

\* Mutant: a stacked step is given the seed the builder holds, not its own.
Stack_fluent_shares_seed(self, seed, f) ==
    stack(self,
          StatefulStacker(IF self.state.tag = "Seed" THEN self.state.s ELSE seed,
                          ByValue(Closure(f, "seeded"))),
          "StatefulApply")

Stack_fluent(self, seed, f) ==
    stack(self, StatefulStacker(seed, ByValue(Closure(f, "seeded"))), "StatefulApply")

\* Mutant: stacking a by-mutation step replaces the State by the step's seed.
Stack_fluent_mut_resets_state(self, seed, m) ==
    Builder(State_Seed(seed),
            StatefulApply_new(seed, self.fluent_method, ByRefMut(Closure(m, "seeded"))),
            "StatefulApply")

Stack_fluent_mut(self, seed, m) ==
    stack(self, StatefulStacker(seed, ByRefMut(Closure(m, "seeded"))), "StatefulApply")

\* Mutant: the State is kept, only the Method is replaced.
Override_fluent_keeps_state(self, seed, f) ==
    Builder(self.state, Apply_new(None, ByValue(Closure(f, "plain"))), "Apply")

\* Mutant: a seed the builder already holds is kept, the call's seed dropped.
Override_fluent_keeps_seed(self, seed, f) ==
    Builder(IF self.state.tag = "Seed" THEN self.state ELSE State_Seed(seed),
            Apply_new(None, ByValue(Closure(f, "plain"))), "Apply")

Override_fluent(self, seed, f) == from_fluent(seed, f)

\* Mutant: the new step is stacked on the previous Method.
Override_fluent_mut_stacks(self, seed, m) ==
    Builder(State_Seed(seed),
            Apply_new(self.fluent_method, ByRefMut(Closure(m, "plain"))), "Apply")

\* Mutant: the State is kept, only the Method is replaced.
Override_fluent_mut_keeps_state(self, seed, m) ==
    Builder(self.state, Apply_new(None, ByRefMut(Closure(m, "plain"))), "Apply")

Override_fluent_mut(self, seed, m) == from_fluent_mut(seed, m)

(***************************************************************************)
(* FluentBuilder: a StatefulFluentBuilder with seed ()                     *)
(***************************************************************************)
FluentBuilder_default(storage) == from_seed(NoSeed, storage)

\* Mutant: value keeps the steps accumulated so far.
FluentBuilder_value_keeps_steps(self, v) ==
    Builder(State_Value(v), self.fluent_method, self.TStorage)

FluentBuilder_value(self, v) == value(self, v)

\* Mutant: a step added to a builder that holds a value runs at once.
FluentBuilder_Stack_fluent_eager(self, f) ==
    IF self.state.tag = "Value"
    THEN Builder(State_Value(CallFn(f, NoSeed, self.state.v)), self.fluent_method,
                 self.TStorage)
    ELSE stack(self, Stacker(ByValue(Closure(f, "plain"))), "Apply")

FluentBuilder_Stack_fluent(self, f) ==
    stack(self, Stacker(ByValue(Closure(f, "plain"))), "Apply")

\* Mutant: the new step replaces the steps stacked so far.
FluentBuilder_Stack_fluent_mut_overrides(self, m) ==
    Builder(self.state, Apply_new(None, ByRefMut(Closure(m, "plain"))), "Apply")

FluentBuilder_Stack_fluent_mut(self, m) ==
    stack(self, Stacker(ByRefMut(Closure(m, "plain"))), "Apply")

\* Mutant: an Override fluent call keeps the State the builder holds.
FluentBuilder_Override_fluent_keeps_state(self, f) ==
    Builder(self.state, Apply_new(None, ByValue(Closure(f, "plain"))), "Apply")

FluentBuilder_Override_fluent(self, f) == Override_fluent(self, NoSeed, f)

\* Mutant: an Override fluent_mut call stacks instead of replacing.
FluentBuilder_Override_fluent_mut_stacks(self, m) ==
    stack(self, Stacker(ByRefMut(Closure(m, "plain"))), "Apply")

FluentBuilder_Override_fluent_mut(self, m) == Override_fluent_mut(self, NoSeed, m)

\* Mutant: the default value is built and used although a value is held.
FluentBuilder_into_value_from_default(self, d) ==
    into_value(Builder(State_Seed(NoSeed), self.fluent_method, self.TStorage),
               Closure(d, "ignore_seed"))

\* into_value(default_value) passes move |_| default_value() to the inner builder.
FluentBuilder_into_value(self, d) == into_value(self, Closure(d, "ignore_seed"))

FluentBuilder_try_into_value(self) == try_into_value(self)

\* Mutant: boxing also resets the State to the unit seed.
FluentBuilder_boxed_reseeds(self) ==
    boxed(Builder(State_Seed(NoSeed), self.fluent_method, self.TStorage))

FluentBuilder_boxed(self) == boxed(self)

\* Mutant: one shared call erases the Method twice.
FluentBuilder_shared_twice(self) == shared(shared(self))

FluentBuilder_shared(self) == shared(self)

(***************************************************************************)
(* The client: one builder, constructed, operated on, resolved             *)
(***************************************************************************)
Op(op, seed, f, v) == [op |-> op, seed |-> seed, f |-> f, v |-> v]

NoRet == [variant |-> "None", value |-> <<>>]

Init ==
    /\ facade \in {"FluentBuilder", "StatefulFluentBuilder"}
    /\ TStack \in Stacks
    /\ pc = "new"
    /\ builder = Moved
    /\ ret = NoRet
    /\ calls = <<>>
    /\ hist = <<>>

Stateful == facade = "StatefulFluentBuilder"
Stateless == facade = "FluentBuilder"
MayOperate == pc = "live" /\ Len(hist) <= MaxOps

\* The builder the call returned replaces the one the client held.
Becomes(b, entry) ==
    /\ pc' = "live"
    /\ builder' = b
    /\ hist' = Append(hist, entry)
    /\ UNCHANGED <<facade, TStack, ret, calls>>

\* into_value returned r (or panicked).
Resolved(r, entry) ==
    /\ pc' = IF r.fault THEN "panic" ELSE "done"
    /\ builder' = Moved
    /\ ret' = [variant |-> "IntoValue", value |-> r.value]
    /\ calls' = calls \o r.ran
    /\ hist' = Append(hist, entry)
    /\ UNCHANGED <<facade, TStack>>

\* try_into_value returned r (or panicked).
Tried(r, entry) ==
    /\ pc' = IF r.fault THEN "panic"
             ELSE IF r.variant = "Value" THEN "done" ELSE "live"
    /\ builder' = r.builder
    /\ ret' = [variant |-> r.variant, value |-> r.value]
    /\ calls' = calls \o r.ran
    /\ hist' = Append(hist, entry)
    /\ UNCHANGED <<facade, TStack>>

\* ---- constructors ----
FromSeed ==
    /\ pc = "new" /\ Stateful
    /\ \E seed \in Seeds, st \in Storages :
          Becomes(from_seed(seed, st), Op("from_seed", seed, "-", <<>>))

FromValue ==
    /\ pc = "new" /\ Stateful
    /\ \E v \in Values, st \in Storages :
          Becomes(from_value(v, st), Op("from_value", "-", "-", v))

FromFluent ==
    /\ pc = "new" /\ Stateful
    /\ \E seed \in Seeds, f \in Fns :
          Becomes(from_fluent(seed, f), Op("from_fluent", seed, f, <<>>))

FromFluentMut ==
    /\ pc = "new" /\ Stateful
    /\ \E seed \in Seeds, m \in Muts :
          Becomes(from_fluent_mut(seed, m), Op("from_fluent_mut", seed, m, <<>>))

BoxedFromFluent ==
    /\ pc = "new" /\ Stateful
    /\ \E seed \in Seeds, f \in Fns :
          Becomes(Boxed_from_fluent(seed, f), Op("from_fluent", seed, f, <<>>))

BoxedFromFluentMut ==
    /\ pc = "new" /\ Stateful
    /\ \E seed \in Seeds, m \in Muts :
          Becomes(Boxed_from_fluent_mut(seed, m), Op("from_fluent_mut", seed, m, <<>>))

SharedFromFluent ==
    /\ pc = "new" /\ Stateful
    /\ \E seed \in Seeds, f \in Fns :
          Becomes(Shared_from_fluent(seed, f), Op("from_fluent", seed, f, <<>>))

SharedFromFluentMut ==
    /\ pc = "new" /\ Stateful
    /\ \E seed \in Seeds, m \in Muts :
          Becomes(Shared_from_fluent_mut(seed, m), Op("from_fluent_mut", seed, m, <<>>))

FluentBuilderNew ==
    /\ pc = "new" /\ Stateless
    /\ \E st \in Storages :
          Becomes(FluentBuilder_default(st), Op("new", NoSeed, "-", <<>>))

\* ---- StatefulFluentBuilder operations ----
Value ==
    /\ MayOperate /\ Stateful
    /\ \E v \in Values : Becomes(value(builder, v), Op("value", "-", "-", v))

StackFluent ==
    /\ MayOperate /\ Stateful /\ TStack = "Stack"
    /\ \E seed \in Seeds, f \in Fns :
          Becomes(Stack_fluent(builder, seed, f), Op("fluent", seed, f, <<>>))

StackFluentMut ==
    /\ MayOperate /\ Stateful /\ TStack = "Stack"
    /\ \E seed \in Seeds, m \in Muts :
          Becomes(Stack_fluent_mut(builder, seed, m), Op("fluent_mut", seed, m, <<>>))

OverrideFluent ==
    /\ MayOperate /\ Stateful /\ TStack = "Override"
    /\ \E seed \in Seeds, f \in Fns :
          Becomes(Override_fluent(builder, seed, f), Op("fluent", seed, f, <<>>))

OverrideFluentMut ==
    /\ MayOperate /\ Stateful /\ TStack = "Override"
    /\ \E seed \in Seeds, m \in Muts :
          Becomes(Override_fluent_mut(builder, seed, m), Op("fluent_mut", seed, m, <<>>))

BoxedOp ==
    /\ MayOperate /\ Stateful
    /\ Becomes(boxed(builder), Op("boxed", "-", "-", <<>>))

SharedOp ==
    /\ MayOperate /\ Stateful /\ MethodIsSend(builder)
    /\ Becomes(shared(builder), Op("shared", "-", "-", <<>>))

IntoValue ==
    /\ pc = "live" /\ Stateful
    /\ \E d \in DefaultFns :
          Resolved(into_value(builder, Closure(d, "seeded")),
                   Op("into_value", "-", d, <<>>))

TryIntoValue ==
    /\ pc = "live" /\ Stateful
    /\ builder.state.tag = "Value" \/ Len(hist) <= MaxOps
    /\ Tried(try_into_value(builder), Op("try_into_value", "-", "-", <<>>))

\* ---- FluentBuilder operations ----
FluentBuilderValue ==
    /\ MayOperate /\ Stateless
    /\ \E v \in Values :
          Becomes(FluentBuilder_value(builder, v), Op("value", "-", "-", v))

FluentBuilderStackFluent ==
    /\ MayOperate /\ Stateless /\ TStack = "Stack"
    /\ \E f \in Fns :
          Becomes(FluentBuilder_Stack_fluent(builder, f), Op("fluent", NoSeed, f, <<>>))

FluentBuilderStackFluentMut ==
    /\ MayOperate /\ Stateless /\ TStack = "Stack"
    /\ \E m \in Muts :
          Becomes(FluentBuilder_Stack_fluent_mut(builder, m),
                  Op("fluent_mut", NoSeed, m, <<>>))

FluentBuilderOverrideFluent ==
    /\ MayOperate /\ Stateless /\ TStack = "Override"
    /\ \E f \in Fns :
          Becomes(FluentBuilder_Override_fluent(builder, f),
                  Op("fluent", NoSeed, f, <<>>))

FluentBuilderOverrideFluentMut ==
    /\ MayOperate /\ Stateless /\ TStack = "Override"
    /\ \E m \in Muts :
          Becomes(FluentBuilder_Override_fluent_mut(builder, m),
                  Op("fluent_mut", NoSeed, m, <<>>))

FluentBuilderBoxed ==
    /\ MayOperate /\ Stateless
    /\ Becomes(FluentBuilder_boxed(builder), Op("boxed", "-", "-", <<>>))

FluentBuilderShared ==
    /\ MayOperate /\ Stateless /\ MethodIsSend(builder)
    /\ Becomes(FluentBuilder_shared(builder), Op("shared", "-", "-", <<>>))

FluentBuilderIntoValue ==
    /\ pc = "live" /\ Stateless
    /\ \E d \in DefaultFns :
          Resolved(FluentBuilder_into_value(builder, d), Op("into_value", "-", d, <<>>))

FluentBuilderTryIntoValue ==
    /\ pc = "live" /\ Stateless
    /\ builder.state.tag = "Value" \/ Len(hist) <= MaxOps
    /\ Tried(FluentBuilder_try_into_value(builder),
             Op("try_into_value", "-", "-", <<>>))

Next ==
    \/ FromSeed \/ FromValue \/ FromFluent \/ FromFluentMut
    \/ BoxedFromFluent \/ BoxedFromFluentMut
    \/ SharedFromFluent \/ SharedFromFluentMut
    \/ FluentBuilderNew
    \/ Value \/ StackFluent \/ StackFluentMut
    \/ OverrideFluent \/ OverrideFluentMut
    \/ BoxedOp \/ SharedOp \/ IntoValue \/ TryIntoValue
    \/ FluentBuilderValue
    \/ FluentBuilderStackFluent \/ FluentBuilderStackFluentMut
    \/ FluentBuilderOverrideFluent \/ FluentBuilderOverrideFluentMut
    \/ FluentBuilderBoxed \/ FluentBuilderShared
    \/ FluentBuilderIntoValue \/ FluentBuilderTryIntoValue

Spec == Init /\ [][Next]_vars

(***************************************************************************)
(* Reading the history                                                     *)
(***************************************************************************)
N == Len(hist)
FluentOps == {"fluent", "fluent_mut"}
StepOps == {"fluent", "fluent_mut", "from_fluent", "from_fluent_mut"}
ValueOps == {"value", "from_value"}
ConvOps == {"boxed", "shared"}
ResetOps == {"value", "from_value", "from_seed", "from_fluent", "from_fluent_mut", "new"}

IsStep(e) == e.op \in StepOps
IsReset(e) == e.op \in ResetOps
IsConv(e) == e.op \in ConvOps

\* The index of the last operation that replaced State and Method wholesale
\* under the Stack policy (the constructor or a later value call).
LastReset(h) == CHOOSE i \in 1..Len(h) :
                    /\ IsReset(h[i])
                    /\ \A j \in (i+1)..Len(h) : ~IsReset(h[j])

\* What a step contributes when it runs: the closures given to from_fluent,
\* from_fluent_mut and to every Override or FluentBuilder call take no seed.
StepTok(e) ==
    Tok(e.f, IF e.op \in FluentOps /\ TStack = "Stack" THEN e.seed ELSE NoSeed)

\* The steps of h, in call order.
StepsOf(h) ==
    LET s == SelectSeq(h, IsStep)
    IN  [i \in 1..Len(s) |-> StepTok(s[i])]

From(h, k) == SubSeq(h, k, Len(h))

\* The default value the constructor d builds when the client passes seed s.
DefaultOf(d, s) == <<Tok(d, IF Stateful THEN s ELSE NoSeed)>>

EndsWithIntoValue == N >= 2 /\ pc \in {"done", "panic"} /\ hist[N].op = "into_value"

(***************************************************************************)
(* C1: value(v) followed by into_value(default_fn) returns exactly v, for  *)
(* every builder, policy, storage, default_fn and whatever steps were      *)
(* added before value(v); no closure runs at all.                          *)
(***************************************************************************)
C1_ValueOverrideTotality ==
    (EndsWithIntoValue /\ hist[N-1].op = "value") =>
        /\ pc = "done"
        /\ ret = [variant |-> "IntoValue", value |-> hist[N-1].v]
        /\ calls = <<>>

C1_Witness ==
    /\ pc = "done" /\ N = 5
    /\ hist[2].op \in FluentOps /\ hist[3].op \in FluentOps
    /\ hist[4].op = "value" /\ hist[5].op = "into_value"
    /\ ret.value = hist[4].v

(***************************************************************************)
(* C2: under the Stack policy the steps pending at resolution are applied  *)
(* in call order, first-added first, each to the value the one before it   *)
(* returned: the resolved value is the base followed by the steps added    *)
(* since the last value call (or the constructor), in the order of the     *)
(* calls.                                                                  *)
(***************************************************************************)
C2_StackFifo ==
    (TStack = "Stack" /\ pc \in {"done", "panic"}) =>
        /\ pc = "done"
        /\ Len(ret.value) >= 1
        /\ SubSeq(ret.value, 2, Len(ret.value))
              = StepsOf(From(hist, LastReset(hist)))

C2_Witness ==
    /\ TStack = "Stack" /\ pc = "done" /\ N >= 4
    /\ hist[N-2].op \in FluentOps /\ hist[N-1].op \in FluentOps
    /\ hist[N-2].f # hist[N-1].f
    /\ hist[N].op = "into_value"
    /\ Len(ret.value) >= 3
    /\ ret.value[Len(ret.value) - 1].f = hist[N-2].f
    /\ ret.value[Len(ret.value)].f = hist[N-1].f

(***************************************************************************)
(* C3: under the Override policy, after fluent/fluent_mut(s1, step1) then  *)
(* fluent/fluent_mut(s2, step2), into_value(d) returns step2(d(s2)): only  *)
(* step2 runs, the default is built from s2, and step1 and s1 do not       *)
(* appear.                                                                 *)
(***************************************************************************)
C3_OverrideLastWins ==
    (/\ TStack = "Override" /\ EndsWithIntoValue /\ N >= 3
     /\ hist[N-1].op \in FluentOps /\ hist[N-2].op \in StepOps) =>
        /\ pc = "done"
        /\ ret.value = DefaultOf(hist[N].f, hist[N-1].seed)
                          \o <<Tok(hist[N-1].f, NoSeed)>>
        /\ calls = ret.value

C3_Witness ==
    /\ TStack = "Override" /\ pc = "done" /\ N >= 4
    /\ hist[N].op = "into_value"
    /\ hist[N-1].op \in FluentOps /\ hist[N-2].op \in FluentOps
    /\ hist[N-1].f # hist[N-2].f /\ hist[N-1].seed # hist[N-2].seed
    /\ Len(ret.value) = Len(<<hist[N], hist[N-1]>>)

\* The step just taken was a call of one of the operations ops.
Called(ops) == Len(hist') = Len(hist) + 1 /\ hist'[Len(hist')].op \in ops

\* m is a Method holding exactly the step of history entry e and no predecessor.
SingleStep(m, e) ==
    /\ m.kind = "Apply"
    /\ m.inner.some
    /\ m.inner.x.previous.kind = "None"
    /\ m.inner.x.next.some
    /\ m.inner.x.next.x.c.f = e.f
    /\ m.inner.x.next.x.mode = (IF e.op = "fluent" THEN "ByValue" ELSE "ByRefMut")

(***************************************************************************)
(* C4, as claimed: under the Override policy fluent / fluent_mut replaces  *)
(* the Method with a fresh single-step Method and leaves the State         *)
(* unchanged (Value(v) stays Value(v), Seed(s) stays Seed(s)).             *)
(***************************************************************************)
C4_StateUnchanged ==
    [][(TStack = "Override" /\ Called(FluentOps)) =>
          /\ SingleStep(builder'.fluent_method, hist'[Len(hist')])
          /\ builder'.state = builder.state]_vars

(***************************************************************************)
(* C4, amended: under the Override policy fluent / fluent_mut(seed, step)  *)
(* replaces the Method with a fresh single-step Method and sets the State  *)
(* to Seed(seed), whatever it was before: a previous Value(v) is dropped   *)
(* and a previous Seed(s) is replaced by the seed of the call.             *)
(***************************************************************************)
C4_StateBecomesSeed ==
    [][(TStack = "Override" /\ Called(FluentOps)) =>
          /\ pc' = "live"
          /\ SingleStep(builder'.fluent_method, hist'[Len(hist')])
          /\ builder'.state = State_Seed(hist'[Len(hist')].seed)]_vars

C4_Witness ==
    /\ TStack = "Override" /\ pc = "live" /\ N >= 2
    /\ hist[N].op \in FluentOps /\ hist[N-1].op \in ValueOps
    /\ builder.state.tag = "Seed"
    /\ builder.fluent_method.kind = "Apply"

(***************************************************************************)
(* C5: under the Override policy fluent / fluent_mut(seed, step) on a      *)
(* builder holding a value removes the value: the State becomes            *)
(* Seed(seed), and after value(v) followed only by fluent calls            *)
(* into_value(d) returns step(d(seed)) for the last call's step and seed;  *)
(* v does not appear in the result.                                        *)
(***************************************************************************)
C5_OverrideFluentRemovesValue ==
    /\ (TStack = "Override" /\ N >= 2 /\ hist[N].op \in FluentOps
        /\ hist[N-1].op \in ValueOps) =>
            (pc = "live" /\ builder.state = State_Seed(hist[N].seed))
    /\ (/\ TStack = "Override" /\ EndsWithIntoValue /\ N >= 3
        /\ \E k \in 1..(N-2) :
              /\ hist[k].op \in ValueOps
              /\ \A j \in (k+1)..(N-1) : hist[j].op \in FluentOps) =>
            /\ pc = "done"
            /\ ret.value = DefaultOf(hist[N].f, hist[N-1].seed)
                              \o <<Tok(hist[N-1].f, NoSeed)>>
            /\ \A i \in 1..Len(ret.value) : <<ret.value[i]>> \notin Values

C5_Witness ==
    /\ TStack = "Override" /\ pc = "done" /\ N >= 4
    /\ hist[N].op = "into_value"
    /\ hist[N-1].op \in FluentOps /\ hist[N-2].op \in FluentOps
    /\ hist[N-3].op \in ValueOps
    /\ ret.value[1].f \in DefaultFns

(***************************************************************************)
(* C6: under the Stack policy fluent / fluent_mut leaves the State         *)
(* unchanged; a value set earlier is retained, so after value(v) the       *)
(* steps added since are applied to v in order and the default             *)
(* constructor is not called.                                              *)
(***************************************************************************)
C6_StackKeepsState ==
    /\ [][(TStack = "Stack" /\ Called(FluentOps)) =>
             (pc' = "live" /\ builder'.state = builder.state)]_vars
    /\ []((/\ TStack = "Stack" /\ EndsWithIntoValue
           /\ hist[LastReset(hist)].op \in ValueOps) =>
              /\ pc = "done"
              /\ ret.value = hist[LastReset(hist)].v
                                \o StepsOf(From(hist, LastReset(hist)))
              /\ \A i \in 1..Len(calls) : calls[i].f \notin DefaultFns)

C6_Witness ==
    /\ TStack = "Stack" /\ pc = "done" /\ N >= 4
    /\ hist[N].op = "into_value"
    /\ hist[N-1].op \in FluentOps /\ hist[N-2].op \in FluentOps
    /\ hist[N-3].op \in ValueOps
    /\ ret.value = hist[N-3].v \o <<Tok(hist[N-2].f, hist[N-2].seed),
                                    Tok(hist[N-1].f, hist[N-1].seed)>>

(***************************************************************************)
(* C7: a builder made by from_seed(s) (or new(), whose seed is ()), to     *)
(* which neither value nor a fluent step was applied, resolves with        *)
(* into_value(d) to d(s); storage conversions in between change nothing.   *)
(***************************************************************************)
C7_DefaultResolution ==
    (/\ EndsWithIntoValue
     /\ hist[1].op \in {"from_seed", "new"}
     /\ \A i \in 2..(N-1) : hist[i].op \in ConvOps \cup {"try_into_value"}) =>
        /\ pc = "done"
        /\ ret = [variant |-> "IntoValue", value |-> DefaultOf(hist[N].f, hist[1].seed)]
        /\ calls = ret.value

C7_Witness ==
    /\ pc = "done" /\ N = 4 /\ Stateful
    /\ hist[1].op = "from_seed"
    /\ hist[2].op = "shared" /\ hist[3].op = "boxed"
    /\ hist[4].op = "into_value"
    /\ ret.value = <<Tok(hist[4].f, hist[1].seed)>>

(***************************************************************************)
(* The same calls on an Inline builder, without the storage conversions    *)
(***************************************************************************)
\* The constructor call e on Inline storage.
Construct(e) ==
    CASE e.op = "from_seed" -> from_seed(e.seed, "Inline")
      [] e.op = "from_value" -> from_value(e.v, "Inline")
      [] e.op = "from_fluent" -> from_fluent(e.seed, e.f)
      [] e.op = "from_fluent_mut" -> from_fluent_mut(e.seed, e.f)
      [] e.op = "new" -> FluentBuilder_default("Inline")

\* The builder-to-builder call e on builder b.
Operate(b, e) ==
    CASE e.op = "value" -> value(b, e.v)
      [] e.op = "boxed" -> boxed(b)
      [] e.op = "shared" -> shared(b)
      [] e.op = "fluent" /\ Stateful /\ TStack = "Stack" -> Stack_fluent(b, e.seed, e.f)
      [] e.op = "fluent_mut" /\ Stateful /\ TStack = "Stack" ->
            Stack_fluent_mut(b, e.seed, e.f)
      [] e.op = "fluent" /\ Stateful /\ TStack = "Override" ->
            Override_fluent(b, e.seed, e.f)
      [] e.op = "fluent_mut" /\ Stateful /\ TStack = "Override" ->
            Override_fluent_mut(b, e.seed, e.f)
      [] e.op = "fluent" /\ Stateless /\ TStack = "Stack" ->
            FluentBuilder_Stack_fluent(b, e.f)
      [] e.op = "fluent_mut" /\ Stateless /\ TStack = "Stack" ->
            FluentBuilder_Stack_fluent_mut(b, e.f)
      [] e.op = "fluent" /\ Stateless /\ TStack = "Override" ->
            FluentBuilder_Override_fluent(b, e.f)
      [] e.op = "fluent_mut" /\ Stateless /\ TStack = "Override" ->
            FluentBuilder_Override_fluent_mut(b, e.f)

RECURSIVE RunFrom(_, _, _)
\* The calls h[i..] on builder b: how the run ends and what the last
\* resolving call returned.
RunFrom(b, h, i) ==
    IF i > Len(h) THEN [pc |-> "live", ret |-> NoRet]
    ELSE IF h[i].op = "into_value"
    THEN LET r == into_value(b, Closure(h[i].f, IF Stateful THEN "seeded"
                                                 ELSE "ignore_seed"))
         IN  [pc |-> IF r.fault THEN "panic" ELSE "done",
              ret |-> [variant |-> "IntoValue", value |-> r.value]]
    ELSE IF h[i].op = "try_into_value"
    THEN LET r == try_into_value(b)
         IN  IF r.fault THEN [pc |-> "panic", ret |-> NoRet]
             ELSE IF r.variant = "Value"
             THEN [pc |-> "done", ret |-> [variant |-> "Value", value |-> r.value]]
             ELSE LET rest == RunFrom(r.builder, h, i + 1)
                  IN  IF rest.pc = "live"
                      THEN [pc |-> "live",
                            ret |-> [variant |-> "Builder", value |-> <<>>]]
                      ELSE rest
    ELSE RunFrom(Operate(b, h[i]), h, i + 1)

NotConv(e) == ~IsConv(e)
\* h on an Inline builder with every boxed() / shared() call left out.
RunInline(h) ==
    LET g == SelectSeq(h, NotConv)
    IN  RunFrom(Construct(g[1]), g, 2)

(***************************************************************************)
(* C8: boxed() / shared() calls inserted anywhere in a sequence of calls   *)
(* (also between stacked steps, also as the constructor's storage) do not  *)
(* change what into_value or try_into_value finally returns: it is what    *)
(* the same calls without the conversions return on an Inline builder.     *)
(***************************************************************************)
C8_StorageEquivalence ==
    (pc \in {"done", "panic"}) =>
        /\ pc = "done"
        /\ RunInline(hist) = [pc |-> "done", ret |-> ret]

C8_Witness ==
    /\ TStack = "Stack" /\ pc = "done" /\ N = 5
    /\ hist[2].op \in FluentOps /\ hist[3].op \in ConvOps
    /\ hist[4].op \in FluentOps
    /\ builder = Moved
    /\ Len(ret.value) = N - 2
    /\ RunInline(hist).ret.value = ret.value

(***************************************************************************)
(* C9: try_into_value on a builder whose State is Value(v) returns the     *)
(* Value variant, never the Builder variant, and the value it carries is   *)
(* v with every pending step applied, in call order.                       *)
(***************************************************************************)
C9_TryIntoValueOnValue ==
    [][(Called({"try_into_value"}) /\ builder.state.tag = "Value") =>
          /\ pc' = "done"
          /\ ret'.variant = "Value"
          /\ ret'.value = builder.state.v \o StepsOf(From(hist, LastReset(hist)))
          /\ calls' = calls \o StepsOf(From(hist, LastReset(hist)))]_vars

C9_Witness ==
    /\ pc = "done" /\ N >= 4
    /\ hist[N].op = "try_into_value"
    /\ hist[N-1].op \in FluentOps /\ hist[N-2].op \in FluentOps
    /\ ret.variant = "Value"
    /\ Len(ret.value) >= Len(<<hist[N-2], hist[N-1], hist[N]>>)

(***************************************************************************)
(* C10: try_into_value on a builder whose State is Seed(s) returns the     *)
(* Builder variant holding a builder with the same State and the same      *)
(* pending Method; no closure runs and no seed is consumed, so             *)
(* into_value(d) on the returned builder yields what into_value(d) on the  *)
(* builder before the call would have yielded.                             *)
(***************************************************************************)
C10_TryIntoValueOnSeed ==
    [][(Called({"try_into_value"}) /\ builder.state.tag = "Seed") =>
          /\ pc' = "live"
          /\ ret' = [variant |-> "Builder", value |-> <<>>]
          /\ builder'.state = builder.state
          /\ builder'.fluent_method = builder.fluent_method
          /\ calls' = calls
          /\ \A d \in DefaultFns :
                into_value(builder', Closure(d, "seeded"))
                    = into_value(builder, Closure(d, "seeded"))]_vars

C10_Witness ==
    /\ pc = "done" /\ N >= 4
    /\ hist[N].op = "into_value"
    /\ hist[N-1].op = "try_into_value"
    /\ hist[N-2].op \in FluentOps
    /\ ret.variant = "IntoValue"
    /\ Len(ret.value) >= 2

\* Some call of the history h gave the builder an explicit value.
GivenValue(h) == \E i \in 1..Len(h) : h[i].op \in ValueOps

\* The operations that replace the State: the constructors and value under
\* both policies, and fluent / fluent_mut under Override.
StateOps == ResetOps \cup (IF TStack = "Override" THEN FluentOps ELSE {})

\* The builder of history h holds an explicit value: the last call that
\* replaced its State was from_value or value.
HoldsValue(h) ==
    \E i \in 1..Len(h) :
        /\ h[i].op \in ValueOps
        /\ \A j \in (i+1)..Len(h) : h[j].op \notin StateOps

Before == SubSeq(hist, 1, N - 1)

(***************************************************************************)
(* C12: under the Stack policy every stacked step is called with exactly   *)
(* the seed of its own fluent / fluent_mut call, the default constructor   *)
(* is called with the seed given at construction (from_seed, from_fluent,  *)
(* from_fluent_mut), and no seed reaches more than one consumer or a step  *)
(* other than its own: the closure calls of a resolution are the default   *)
(* constructor on the constructor's seed (when no value is held) and then  *)
(* each pending step on its own seed, once each.                           *)
(***************************************************************************)
C12_SeedIndependence ==
    (TStack = "Stack" /\ Stateful /\ pc \in {"done", "panic"}) =>
        LET k == LastReset(Before)
            default == IF hist[k].op \in ValueOps THEN <<>>
                       ELSE <<Tok(hist[N].f, hist[k].seed)>>
        IN  /\ pc = "done"
            /\ calls = default \o StepsOf(From(Before, k))
            /\ \A i \in 1..Len(calls) :
                  calls[i].f \in DefaultFns => (i = 1 /\ calls[i].s = hist[1].seed)

C12_Witness ==
    /\ TStack = "Stack" /\ Stateful /\ pc = "done" /\ N = 4
    /\ hist[1].op = "from_seed" /\ hist[N].op = "into_value"
    /\ hist[2].op \in FluentOps /\ hist[3].op \in FluentOps
    /\ hist[2].seed # hist[1].seed /\ hist[3].seed # hist[2].seed
    /\ calls = <<Tok(hist[4].f, hist[1].seed), Tok(hist[2].f, hist[2].seed),
                 Tok(hist[3].f, hist[3].seed)>>

\* The index of the last call before the final one that replaced the State.
LastStateOp == CHOOSE k \in 1..(N - 1) :
                  /\ hist[k].op \in StateOps
                  /\ \A j \in (k+1)..(N-1) : hist[j].op \notin StateOps

(***************************************************************************)
(* C13: under the Override policy each fluent / fluent_mut(seed, step)     *)
(* call replaces the seed held so far, so into_value calls the default     *)
(* constructor with the seed of the most recent fluent call, not with the  *)
(* constructor's seed nor an earlier fluent call's, and the step itself    *)
(* is called without a seed.                                               *)
(***************************************************************************)
C13_SeedReplacement ==
    (/\ TStack = "Override" /\ Stateful /\ EndsWithIntoValue
     /\ hist[LastStateOp].op \in FluentOps) =>
        /\ pc = "done"
        /\ calls = <<Tok(hist[N].f, hist[LastStateOp].seed),
                     Tok(hist[LastStateOp].f, NoSeed)>>

C13_Witness ==
    /\ TStack = "Override" /\ Stateful /\ pc = "done" /\ N = 5
    /\ hist[1].op = "from_seed" /\ hist[N].op = "into_value"
    /\ hist[2].op \in FluentOps /\ hist[3].op \in ConvOps /\ hist[4].op \in FluentOps
    /\ hist[4].seed # hist[1].seed /\ hist[4].seed # hist[2].seed
    /\ calls[1] = Tok(hist[5].f, hist[4].seed)

ConstructFluentOps == {"from_fluent", "from_fluent_mut"}

\* The Method of builder b inside the container its storage puts around it.
Stored(b) ==
    CASE b.TStorage = "Boxed" /\ b.fluent_method.kind = "BoxedMethod" ->
            b.fluent_method.inner
      [] b.TStorage = "Shared" /\ b.fluent_method.kind = "SharedMethod" ->
            b.fluent_method.inner
      [] b.TStorage = "Apply" -> b.fluent_method
      [] OTHER -> None

\* m is one pending step, the closure of call e taking the value alone, with
\* no predecessor.
FirstStep(m, e) ==
    /\ m.kind = "Apply"
    /\ m.inner.some
    /\ m.inner.x.previous = None
    /\ m.inner.x.next =
          SomeOf(IF e.op = "from_fluent" THEN ByValue(Closure(e.f, "plain"))
                 ELSE ByRefMut(Closure(e.f, "plain")))

(***************************************************************************)
(* C14: from_fluent(seed, step) / from_fluent_mut(seed, step), on Inline,  *)
(* Boxed and Shared storage alike, yields a builder with State =           *)
(* Seed(seed) and exactly one pending step with no predecessor, and        *)
(* into_value(default_fn) on it returns step(default_fn(seed)): the        *)
(* default constructor is called on the seed, then the step, and the       *)
(* step's result is what is returned.                                      *)
(***************************************************************************)
C14_FromFluent ==
    /\ (N = 1 /\ hist[1].op \in ConstructFluentOps) =>
          /\ pc = "live"
          /\ builder.state = State_Seed(hist[1].seed)
          /\ FirstStep(Stored(builder), hist[1])
    /\ (N = 2 /\ hist[1].op \in ConstructFluentOps /\ hist[2].op = "into_value") =>
          /\ pc = "done"
          /\ ret = [variant |-> "IntoValue",
                    value |-> <<Tok(hist[2].f, hist[1].seed), Tok(hist[1].f, NoSeed)>>]
          /\ calls = ret.value

C14_Witness ==
    /\ pc = "live" /\ N = 1 /\ hist[1].op = "from_fluent_mut"
    /\ builder.TStorage = "Shared"
    /\ builder.fluent_method.kind = "SharedMethod"
    /\ \A d \in DefaultFns :
          into_value(builder, Closure(d, "seeded")).value
              = <<Tok(d, hist[1].seed), Tok(hist[1].f, NoSeed)>>

(***************************************************************************)
(* C15: from_value(v) yields a builder with State = Value(v) and no        *)
(* pending Method; with no further operation into_value(default_fn)        *)
(* returns v for every default_fn, which is never called, and              *)
(* try_into_value returns Value(v).                                        *)
(***************************************************************************)
C15_FromValue ==
    /\ (N = 1 /\ hist[1].op = "from_value") =>
          /\ pc = "live"
          /\ builder.state = State_Value(hist[1].v)
          /\ builder.fluent_method = None
          /\ \A d \in DefaultFns :
                into_value(builder, Closure(d, "seeded"))
                    = [fault |-> FALSE, value |-> hist[1].v, ran |-> <<>>]
    /\ (N = 2 /\ hist[1].op = "from_value" /\ hist[2].op = "into_value") =>
          /\ pc = "done" /\ calls = <<>>
          /\ ret = [variant |-> "IntoValue", value |-> hist[1].v]
    /\ (N = 2 /\ hist[1].op = "from_value" /\ hist[2].op = "try_into_value") =>
          /\ pc = "done" /\ calls = <<>>
          /\ ret = [variant |-> "Value", value |-> hist[1].v]

C15_Witness ==
    /\ pc = "done" /\ N = 2
    /\ hist[1].op = "from_value" /\ hist[2].op = "try_into_value"
    /\ ret.variant = "Value" /\ ret.value \in Values

(***************************************************************************)
(* A Method applied directly, more than once                               *)
(***************************************************************************)
\* How many times a caller holding &mut to the builder's Method applies it.
MaxApplies == 2

\* The value a direct caller passes to Method::apply.
ApplyArg == <<Tok("v1", "lit")>>

Applies == Cardinality({i \in 1..N : hist[i].op = "apply"})

\* fluent_method.apply(value) through a &mut borrow of the Method the
\* builder holds: the Method stays where it is, as the call left it.
ApplyMethod ==
    /\ pc \in {"live", "applied", "reuse"}
    /\ builder.fluent_method # None
    /\ Applies < MaxApplies
    /\ LET r == apply(builder.fluent_method, ApplyArg)
       IN  /\ pc' = IF r.fault THEN "reuse" ELSE "applied"
           /\ builder' = [builder EXCEPT !.fluent_method = r.self]
           /\ ret' = [variant |-> IF r.fault THEN "Fault" ELSE "Applied",
                      value |-> r.value]
           /\ calls' = calls \o r.ran
           /\ hist' = Append(hist, Op("apply", "-", "-", ApplyArg))
           /\ UNCHANGED <<facade, TStack>>

\* Builders made through the public operations, their Methods applied directly.
NextApply ==
    \/ FromSeed \/ FromValue \/ FromFluent \/ FromFluentMut
    \/ BoxedFromFluent \/ BoxedFromFluentMut
    \/ SharedFromFluent \/ SharedFromFluentMut
    \/ FluentBuilderNew
    \/ Value \/ StackFluent \/ StackFluentMut
    \/ OverrideFluent \/ OverrideFluentMut
    \/ BoxedOp \/ SharedOp
    \/ FluentBuilderValue
    \/ FluentBuilderStackFluent \/ FluentBuilderStackFluentMut
    \/ FluentBuilderOverrideFluent \/ FluentBuilderOverrideFluentMut
    \/ FluentBuilderBoxed \/ FluentBuilderShared
    \/ ApplyMethod

SpecApply == Init /\ [][NextApply]_vars

(***************************************************************************)
(* C16: a composed Method (Apply or StatefulApply, bare or inside a        *)
(* BoxedMethod / SharedMethod) returns a value the first time it is        *)
(* applied; every later application fails with the re-use fault, returns   *)
(* no value, and runs no closure: the fault comes before any predecessor   *)
(* step is run again.                                                      *)
(***************************************************************************)
C16_DoubleApplyGuard ==
    [][Called({"apply"}) =>
          IF Applies = 0
          THEN pc' = "applied" /\ ret'.variant = "Applied"
          ELSE /\ pc' = "reuse"
               /\ ret' = [variant |-> "Fault", value |-> <<>>]
               /\ calls' = calls]_vars

C16_Witness ==
    /\ pc = "reuse" /\ Applies = 2
    /\ builder.fluent_method.kind \in {"BoxedMethod", "SharedMethod"}
    /\ builder.fluent_method.inner.kind = "StatefulApply"
    /\ builder.fluent_method.inner.previous # None
    /\ Len(calls) = 2
    /\ ret.variant = "Fault"

(***************************************************************************)
(* C17: no sequence of constructor, value, fluent, fluent_mut, boxed,      *)
(* shared, into_value and try_into_value calls reaches the re-use fault:   *)
(* every operation completes, into_value with a value, try_into_value      *)
(* with exactly one of its two variants (Value carrying a value, Builder   *)
(* carrying a usable builder).                                             *)
(***************************************************************************)
C17_Totality ==
    /\ pc \in {"new", "live", "done"}
    /\ (pc = "live") <=> (N >= 1 /\ builder # Moved)
    /\ (N >= 1 /\ hist[N].op = "into_value") =>
          (pc = "done" /\ ret.variant = "IntoValue" /\ Len(ret.value) >= 1)
    /\ (N >= 1 /\ hist[N].op = "try_into_value") =>
          \/ pc = "done" /\ ret.variant = "Value" /\ Len(ret.value) >= 1
                /\ builder = Moved
          \/ pc = "live" /\ ret.variant = "Builder" /\ ret.value = <<>>
                /\ builder.state.tag = "Seed"

C17_Witness ==
    /\ TStack = "Stack" /\ pc = "done" /\ N >= 5
    /\ hist[N].op = "try_into_value"
    /\ hist[N-1].op \in FluentOps /\ hist[N-2].op = "boxed"
    /\ hist[N-3].op \in FluentOps /\ hist[N-4].op \in ValueOps
    /\ ret.variant = "Value"

(***************************************************************************)
(* The boxed-closure implementation (src/src/lib.rs)                       *)
(***************************************************************************)
\* A closure of T -> T or (T, S) -> T given to the builder: the caller's own
\* by-value closure c, or the library's
\* move |mut value, seed| { fluent_method(&mut value, seed); value }
\* around the caller's by-mutation closure c.
lib_Fn(c) == [wrapper |-> FALSE, c |-> c]
lib_MutWrapper(c) == [wrapper |-> TRUE, c |-> c]

\* Calling such a closure with (value, seed), or with (value) when c is plain.
lib_call(fn, v, seed) ==
    LET arg == IF fn.c.sig = "plain" THEN NoSeed ELSE SeenSeed(fn.c, seed)
    IN  [value |-> IF fn.wrapper THEN CallMut(fn.c.f, arg, v)
                   ELSE CallFn(fn.c.f, arg, v),
         ran |-> <<Tok(fn.c.f, arg)>>]

\* Box<FnBox<T, T>>: Box::new(fluent_method) over a closure of the value
\* alone, and the Box::new(move |value| ...) that fluent builds over the
\* previous box, the new closure and its seed.
lib_BoxFn(fn) == [kind |-> "BoxFn", fn |-> fn]
lib_BoxStacked(previous_fluent_method, fluent_method, seed) ==
    [kind |-> "BoxStacked", previous |-> previous_fluent_method,
     fn |-> fluent_method, seed |-> seed]

RECURSIVE lib_call_box(_, _)
\* fluent_method.call_box(value): the value returned and the closures run.
lib_call_box(self, v) ==
    IF self.kind = "BoxFn" THEN lib_call(self.fn, v, NoSeed)
    ELSE LET p == IF self.previous = None THEN [value |-> v, ran |-> <<>>]
                  ELSE lib_call_box(self.previous, v)
             r == lib_call(self.fn, p.value, self.seed)
         IN  [value |-> r.value, ran |-> p.ran \o r.ran]

\* StatefulFluentBuilderInner(State<T, S>, Option<Box<FnBox<T, T>>>)
lib_Builder(state, fluent_method) ==
    [state |-> state, fluent_method |-> fluent_method]

lib_from_value(v) == lib_Builder(State_Value(v), None)

lib_from_seed(seed) == lib_Builder(State_Seed(seed), None)

lib_value(self, v) == lib_Builder(State_Value(v), None)

lib_into_value(self, default_value) ==
    LET fromSeed == self.state.tag = "Seed"
        default == IF fromSeed THEN CallDefault(default_value, self.state.s)
                   ELSE self.state.v
        ran0 == IF fromSeed THEN default ELSE <<>>
    IN  IF self.fluent_method = None
        THEN [fault |-> FALSE, value |-> default, ran |-> ran0]
        ELSE LET r == lib_call_box(self.fluent_method, default)
             IN  [fault |-> FALSE, value |-> r.value, ran |-> ran0 \o r.ran]

lib_from_fluent(seed, fluent_method) ==
    lib_Builder(State_Seed(seed), lib_BoxFn(fluent_method))

lib_from_fluent_mut(seed, fluent_method) ==
    lib_from_fluent(seed, lib_MutWrapper(fluent_method))

\* Mutant: the new closure replaces the previous one instead of calling it.
lib_fluent_overrides(self, seed, fluent_method) ==
    lib_Builder(self.state, lib_BoxStacked(None, fluent_method, seed))

lib_fluent(self, seed, fluent_method) ==
    lib_Builder(self.state, lib_BoxStacked(self.fluent_method, fluent_method, seed))

\* Mutant: the by-mutation step is stacked without the call's seed.
lib_fluent_mut_drops_seed(self, seed, fluent_method) ==
    lib_fluent(self, NoSeed, lib_MutWrapper(fluent_method))

lib_fluent_mut(self, seed, fluent_method) ==
    lib_fluent(self, seed, lib_MutWrapper(fluent_method))

\* FluentBuilder<T>: a StatefulFluentBuilder<T, ()>
lib_FluentBuilder_default == lib_from_seed(NoSeed)

lib_FluentBuilder_value(self, v) == lib_value(self, v)

lib_FluentBuilder_into_value(self, d) == lib_into_value(self, Closure(d, "ignore_seed"))

lib_FluentBuilder_fluent(self, f) ==
    lib_fluent(self, NoSeed, lib_Fn(Closure(f, "ignore_seed")))

lib_FluentBuilder_fluent_mut(self, m) ==
    lib_fluent_mut(self, NoSeed, Closure(m, "ignore_seed"))

\* ---- a client of the boxed-closure implementation ----
InitLib ==
    /\ facade \in {"lib::FluentBuilder", "lib::StatefulFluentBuilder"}
    /\ TStack = "-"
    /\ pc = "new"
    /\ builder = Moved
    /\ ret = NoRet
    /\ calls = <<>>
    /\ hist = <<>>

LibStateful == facade = "lib::StatefulFluentBuilder"
LibStateless == facade = "lib::FluentBuilder"

LibFromSeed ==
    /\ pc = "new" /\ LibStateful
    /\ \E seed \in Seeds :
          Becomes(lib_from_seed(seed), Op("from_seed", seed, "-", <<>>))

LibFromValue ==
    /\ pc = "new" /\ LibStateful
    /\ \E v \in Values : Becomes(lib_from_value(v), Op("from_value", "-", "-", v))

LibFromFluent ==
    /\ pc = "new" /\ LibStateful
    /\ \E seed \in Seeds, f \in Fns :
          Becomes(lib_from_fluent(seed, lib_Fn(Closure(f, "plain"))),
                  Op("from_fluent", seed, f, <<>>))

LibFromFluentMut ==
    /\ pc = "new" /\ LibStateful
    /\ \E seed \in Seeds, m \in Muts :
          Becomes(lib_from_fluent_mut(seed, Closure(m, "plain")),
                  Op("from_fluent_mut", seed, m, <<>>))

LibFluentBuilderNew ==
    /\ pc = "new" /\ LibStateless
    /\ Becomes(lib_FluentBuilder_default, Op("new", NoSeed, "-", <<>>))

LibValue ==
    /\ MayOperate /\ LibStateful
    /\ \E v \in Values : Becomes(lib_value(builder, v), Op("value", "-", "-", v))

LibFluent ==
    /\ MayOperate /\ LibStateful
    /\ \E seed \in Seeds, f \in Fns :
          Becomes(lib_fluent(builder, seed, lib_Fn(Closure(f, "seeded"))),
                  Op("fluent", seed, f, <<>>))

LibFluentMut ==
    /\ MayOperate /\ LibStateful
    /\ \E seed \in Seeds, m \in Muts :
          Becomes(lib_fluent_mut(builder, seed, Closure(m, "seeded")),
                  Op("fluent_mut", seed, m, <<>>))

LibIntoValue ==
    /\ pc = "live" /\ LibStateful
    /\ \E d \in DefaultFns :
          Resolved(lib_into_value(builder, Closure(d, "seeded")),
                   Op("into_value", "-", d, <<>>))

LibFluentBuilderValue ==
    /\ MayOperate /\ LibStateless
    /\ \E v \in Values :
          Becomes(lib_FluentBuilder_value(builder, v), Op("value", "-", "-", v))

LibFluentBuilderFluent ==
    /\ MayOperate /\ LibStateless
    /\ \E f \in Fns :
          Becomes(lib_FluentBuilder_fluent(builder, f), Op("fluent", NoSeed, f, <<>>))

LibFluentBuilderFluentMut ==
    /\ MayOperate /\ LibStateless
    /\ \E m \in Muts :
          Becomes(lib_FluentBuilder_fluent_mut(builder, m),
                  Op("fluent_mut", NoSeed, m, <<>>))

LibFluentBuilderIntoValue ==
    /\ pc = "live" /\ LibStateless
    /\ \E d \in DefaultFns :
          Resolved(lib_FluentBuilder_into_value(builder, d),
                   Op("into_value", "-", d, <<>>))

NextLib ==
    \/ LibFromSeed \/ LibFromValue \/ LibFromFluent \/ LibFromFluentMut
    \/ LibFluentBuilderNew
    \/ LibValue \/ LibFluent \/ LibFluentMut \/ LibIntoValue
    \/ LibFluentBuilderValue
    \/ LibFluentBuilderFluent \/ LibFluentBuilderFluentMut
    \/ LibFluentBuilderIntoValue

SpecLib == InitLib /\ [][NextLib]_vars

\* What a step of the boxed-closure implementation contributes when it
\* runs: only StatefulFluentBuilder's fluent / fluent_mut closures take a seed.
LibStepTok(e) ==
    Tok(e.f, IF e.op \in FluentOps /\ LibStateful THEN e.seed ELSE NoSeed)

LibStepsOf(h) ==
    LET s == SelectSeq(h, IsStep)
    IN  [i \in 1..Len(s) |-> LibStepTok(s[i])]

(***************************************************************************)
(* C18: in the boxed-closure implementation fluent / fluent_mut calls      *)
(* stack and never override one another: FluentBuilder::default() then     *)
(* fluent_mut(f1), fluent_mut(f2), into_value(d) returns f2(f1(d())), the  *)
(* same calls after value(v) return f2(f1(v)), and in general into_value   *)
(* returns the value set last (or the default) with every step added       *)
(* since applied once, in call order.                                      *)
(***************************************************************************)
C18_LibStacks ==
    (pc \in {"done", "panic"}) =>
        LET k == LastReset(Before)
            base == IF hist[k].op \in ValueOps THEN hist[k].v
                    ELSE <<Tok(hist[N].f, IF LibStateful THEN hist[k].seed ELSE NoSeed)>>
        IN  /\ pc = "done"
            /\ ret = [variant |-> "IntoValue",
                      value |-> base \o LibStepsOf(From(Before, k))]
            /\ calls = IF hist[k].op \in ValueOps THEN LibStepsOf(From(Before, k))
                       ELSE ret.value

C18_Witness ==
    /\ LibStateless /\ pc = "done" /\ N = 5
    /\ hist[1].op = "new" /\ hist[2].op = "value"
    /\ hist[3].op = "fluent_mut" /\ hist[4].op = "fluent_mut"
    /\ hist[3].f # hist[4].f
    /\ ret.value = hist[2].v \o <<Tok(hist[3].f, NoSeed), Tok(hist[4].f, NoSeed)>>

RECURSIVE Pending(_)
\* The step closures Method m holds and has not yet run, oldest first.
Pending(m) ==
    CASE m.kind = "None" -> <<>>
      [] m.kind \in {"BoxedMethod", "SharedMethod"} -> Pending(m.inner)
      [] m.kind = "Apply" -> IF m.inner.some THEN Pending(m.inner.x) ELSE <<>>
      [] m.kind = "StatefulApply" ->
            Pending(m.previous) \o (IF m.next.some THEN <<m.next.x.c.f>> ELSE <<>>)

\* The closures the step just taken ran.
JustRan == SubSeq(calls', Len(calls) + 1, Len(calls'))
IsStepCall(t) == t.f \notin DefaultFns
IsDefaultCall(t) == t.f \in DefaultFns

(***************************************************************************)
(* C19: a single resolution (into_value, or try_into_value on a Value      *)
(* state) applies the accumulated Method exactly once: every step pending  *)
(* in the builder at that moment is executed exactly once, never zero      *)
(* times and never twice, the default constructor at most once, and the    *)
(* builder with its Method is consumed.                                    *)
(***************************************************************************)
C19_ExactlyOnce ==
    [][(\/ Called({"into_value"})
        \/ Called({"try_into_value"}) /\ builder.state.tag = "Value") =>
          LET steps == SelectSeq(JustRan, IsStepCall)
              pending == Pending(builder.fluent_method)
          IN  /\ pc' = "done"
              /\ Len(steps) = Len(pending)
              /\ \A i \in 1..Len(pending) : steps[i].f = pending[i]
              /\ Len(SelectSeq(JustRan, IsDefaultCall))
                    = (IF builder.state.tag = "Seed" THEN 1 ELSE 0)
              /\ Len(ret'.value) = Len(pending) + 1
              /\ builder' = Moved]_vars

C19_Witness ==
    /\ TStack = "Stack" /\ pc = "done" /\ N = 5
    /\ hist[N].op = "into_value"
    /\ hist[2].op \in FluentOps /\ hist[3].op = "shared" /\ hist[4].op \in FluentOps
    /\ hist[2].f = hist[4].f
    /\ Len(calls) = Len(<<hist[1], hist[2], hist[4]>>)
    /\ calls[2].f = calls[3].f

\* History h with every fluent_mut(seed, m) call replaced by fluent(seed, w),
\* w the by-value closure that takes the value, runs m on a mutable view of
\* it and returns it: calling w yields the value as m left it.
AsByValue(h) ==
    [i \in 1..Len(h) |->
        IF h[i].op = "fluent_mut" THEN [h[i] EXCEPT !.op = "fluent"] ELSE h[i]]

(***************************************************************************)
(* C20: fluent_mut(m) behaves as fluent with the by-value step that takes  *)
(* the value, runs m on a mutable view of it and returns the mutated       *)
(* value: under either policy and for either builder, a sequence of calls  *)
(* and the same sequence with each fluent_mut replaced that way resolve    *)
(* to identical results.                                                   *)
(***************************************************************************)
C20_FluentMutAsFluent ==
    (pc \in {"done", "panic"}) =>
        /\ pc = "done"
        /\ RunInline(AsByValue(hist)) = [pc |-> "done", ret |-> ret]

C20_Witness ==
    /\ pc = "done" /\ N >= 4
    /\ hist[N].op = "into_value"
    /\ hist[N-1].op = "fluent_mut" /\ hist[N-2].op = "fluent_mut"
    /\ hist[N-1].f # hist[N-2].f
    /\ AsByValue(hist) # hist
    /\ ret.value[Len(ret.value)].f = hist[N-1].f
    /\ RunInline(AsByValue(hist)).ret = ret

\* The StatefulFluentBuilder<TValue, (), TStack> call that corresponds to
\* FluentBuilder call e: the seed is (), and step closures take ((), value).
UnitSeedOperate(b, e) ==
    CASE e.op = "value" -> value(b, e.v)
      [] e.op = "boxed" -> boxed(b)
      [] e.op = "shared" -> shared(b)
      [] e.op = "fluent" /\ TStack = "Stack" -> Stack_fluent(b, NoSeed, e.f)
      [] e.op = "fluent_mut" /\ TStack = "Stack" -> Stack_fluent_mut(b, NoSeed, e.f)
      [] e.op = "fluent" /\ TStack = "Override" -> Override_fluent(b, NoSeed, e.f)
      [] e.op = "fluent_mut" /\ TStack = "Override" ->
            Override_fluent_mut(b, NoSeed, e.f)

RECURSIVE UnitSeedRun(_, _, _)
\* The FluentBuilder calls h[i..] made on the StatefulFluentBuilder b instead.
UnitSeedRun(b, h, i) ==
    IF i > Len(h) THEN [pc |-> "live", ret |-> NoRet]
    ELSE IF h[i].op = "into_value"
    THEN LET r == into_value(b, Closure(h[i].f, "seeded"))
         IN  [pc |-> IF r.fault THEN "panic" ELSE "done",
              ret |-> [variant |-> "IntoValue", value |-> r.value]]
    ELSE IF h[i].op = "try_into_value"
    THEN LET r == try_into_value(b)
         IN  IF r.fault THEN [pc |-> "panic", ret |-> NoRet]
             ELSE IF r.variant = "Value"
             THEN [pc |-> "done", ret |-> [variant |-> "Value", value |-> r.value]]
             ELSE LET rest == UnitSeedRun(r.builder, h, i + 1)
                  IN  IF rest.pc = "live"
                      THEN [pc |-> "live",
                            ret |-> [variant |-> "Builder", value |-> <<>>]]
                      ELSE rest
    ELSE UnitSeedRun(UnitSeedOperate(b, h[i]), h, i + 1)

(***************************************************************************)
(* C21: the stateless FluentBuilder is the stateful builder with seed ():  *)
(* every sequence of new / value / fluent / fluent_mut / boxed / shared /  *)
(* into_value / try_into_value calls on a FluentBuilder ends as the same   *)
(* calls on StatefulFluentBuilder::from_seed(()) do under the same         *)
(* policy, whatever storage that builder starts with (Boxed storage only   *)
(* for sequences without shared).                                          *)
(***************************************************************************)
C21_StatelessIsUnitSeed ==
    (Stateless /\ N >= 1 /\ pc \in {"live", "done", "panic"}) =>
        \A st \in Storages :
            (st = "Boxed" => \A i \in 1..N : hist[i].op # "shared") =>
                UnitSeedRun(from_seed(NoSeed, st), hist, 2)
                    = [pc |-> pc, ret |-> ret]

C21_Witness ==
    /\ Stateless /\ TStack = "Stack" /\ pc = "done" /\ N = 5
    /\ hist[2].op = "fluent" /\ hist[3].op = "boxed" /\ hist[4].op = "fluent_mut"
    /\ hist[5].op = "into_value"
    /\ ret.value = <<Tok(hist[5].f, NoSeed), Tok(hist[2].f, NoSeed),
                     Tok(hist[4].f, NoSeed)>>

ConvCount(h) == Len(SelectSeq(h, IsConv))

RECURSIVE SingleConv(_)
\* History h with only its first boxed() / shared() call kept.
SingleConv(h) ==
    IF h = <<>> THEN <<>>
    ELSE LET last == h[Len(h)]
             front == SubSeq(h, 1, Len(h) - 1)
         IN  IF IsConv(last) /\ ConvCount(front) >= 1 THEN SingleConv(front)
             ELSE Append(SingleConv(front), last)

(***************************************************************************)
(* C22, as claimed: storage conversions may be repeated in any             *)
(* combination without changing behaviour; in particular a builder that    *)
(* was boxed() can later be shared(), and the result is that of a single   *)
(* conversion.                                                             *)
(***************************************************************************)
C22_AnyConversionRepeats ==
    /\ (pc = "live" /\ hist[N].op = "boxed") => MethodIsSend(builder)
    /\ (pc \in {"done", "panic"} /\ ConvCount(hist) >= 2) =>
          /\ pc = "done"
          /\ RunFrom(Construct(hist[1]), SingleConv(hist), 2)
                = [pc |-> "done", ret |-> ret]

\* Call j of the history is shared() on a Method type that an earlier
\* boxed() made, with no Override fluent call in between to replace it.
SharedAfterBoxed(j) ==
    /\ hist[j].op = "shared"
    /\ \E i \in 1..(j-1) :
          /\ hist[i].op = "boxed"
          /\ \A k \in (i+1)..(j-1) :
                ~(TStack = "Override" /\ hist[k].op \in FluentOps)

(***************************************************************************)
(* C22, amended: boxed().boxed(), shared().shared() and shared() followed  *)
(* later by boxed() (with other calls in between or not) resolve to the    *)
(* same result as the sequence with only the first conversion kept;        *)
(* shared() is not available on a builder whose Method type contains a     *)
(* BoxedMethod, so boxed() is never followed by shared() on the same       *)
(* chain of steps.                                                         *)
(***************************************************************************)
C22_RepeatedConversions ==
    /\ \A j \in 1..N : ~SharedAfterBoxed(j)
    /\ (pc = "live" /\ hist[N].op = "boxed") => ~MethodIsSend(builder)
    /\ (pc \in {"done", "panic"} /\ ConvCount(hist) >= 2) =>
          /\ pc = "done"
          /\ ConvCount(SingleConv(hist)) = 1
          /\ RunFrom(Construct(hist[1]), SingleConv(hist), 2)
                = [pc |-> "done", ret |-> ret]

C22_Witness ==
    /\ TStack = "Stack" /\ pc = "done" /\ N = 5
    /\ hist[1].op \in ConstructFluentOps
    /\ hist[2].op = "shared"
    /\ hist[3].op \in FluentOps /\ hist[4].op = "boxed"
    /\ hist[5].op = "into_value"
    /\ Len(SingleConv(hist)) = 4
    /\ Len(ret.value) = 3

\* The default constructor d as the builder's into_value receives it.
DefaultClosure(d) == Closure(d, IF Stateful THEN "seeded" ELSE "ignore_seed")

(***************************************************************************)
(* C23: resolution terminates: on every builder the public operations can  *)
(* make, with N pending steps, into_value(d) completes without a fault     *)
(* and returns a value after at most one call of the default constructor   *)
(* and exactly N step executions; N is bounded by the number of calls      *)
(* made on the builder.                                                    *)
(***************************************************************************)
C23_ResolutionTerminates ==
    (pc = "live") =>
        \A d \in DefaultFns :
            LET r == into_value(builder, DefaultClosure(d))
                pending == Pending(builder.fluent_method)
            IN  /\ ~r.fault
                /\ Len(r.value) >= 1
                /\ Len(SelectSeq(r.ran, IsDefaultCall)) <= 1
                /\ Len(SelectSeq(r.ran, IsStepCall)) = Len(pending)
                /\ Len(pending) <= N

C23_Witness ==
    /\ pc = "live" /\ TStack = "Stack" /\ N = MaxOps + 1
    /\ builder.state.tag = "Seed"
    /\ Len(Pending(builder.fluent_method)) = N
    /\ \A d \in DefaultFns :
          Len(into_value(builder, DefaultClosure(d)).ran) = N + 1

(***************************************************************************)
(* A builder moved between threads                                         *)
(***************************************************************************)
\* Two threads; builder[t] is the builder thread t's scope holds (Moved when
\* it holds none).  Every operation takes self by value and the builder
\* types implement neither Clone nor Copy, so a call or a send leaves
\* nothing behind in the variable it was made on.
Threads == {"t1", "t2"}

ThreadOp(t, op, seed, f, v) ==
    [op |-> op, seed |-> seed, f |-> f, v |-> v, thread |-> t]

InitThreads ==
    /\ facade = "StatefulFluentBuilder"
    /\ TStack \in Stacks
    /\ pc = "new"
    /\ builder = [t \in Threads |-> Moved]
    /\ ret = NoRet
    /\ calls = <<>>
    /\ hist = <<>>

Holds(t) == builder[t] # Moved

\* Thread t rebinds its variable to the builder b the call returned.
ThreadBecomes(t, b, entry) ==
    /\ pc' = "live"
    /\ builder' = [builder EXCEPT ![t] = b]
    /\ hist' = Append(hist, entry)
    /\ UNCHANGED <<facade, TStack, ret, calls>>

ThreadFromSeed ==
    /\ pc = "new"
    /\ \E t \in Threads, seed \in Seeds, st \in Storages :
          ThreadBecomes(t, from_seed(seed, st), ThreadOp(t, "from_seed", seed, "-", <<>>))

ThreadFromValue ==
    /\ pc = "new"
    /\ \E t \in Threads, v \in Values, st \in Storages :
          ThreadBecomes(t, from_value(v, st), ThreadOp(t, "from_value", "-", "-", v))

ThreadFluentMut ==
    /\ MayOperate
    /\ \E t \in Threads, seed \in Seeds, m \in Muts :
          /\ Holds(t)
          /\ ThreadBecomes(t,
                IF TStack = "Stack" THEN Stack_fluent_mut(builder[t], seed, m)
                ELSE Override_fluent_mut(builder[t], seed, m),
                ThreadOp(t, "fluent_mut", seed, m, <<>>))

ThreadBoxed ==
    /\ MayOperate
    /\ \E t \in Threads :
          /\ Holds(t)
          /\ ThreadBecomes(t, boxed(builder[t]), ThreadOp(t, "boxed", "-", "-", <<>>))

ThreadShared ==
    /\ MayOperate
    /\ \E t \in Threads :
          /\ Holds(t) /\ MethodIsSend(builder[t])
          /\ ThreadBecomes(t, shared(builder[t]), ThreadOp(t, "shared", "-", "-", <<>>))

\* Thread t moves its builder into a closure run on thread u: allowed for a
\* builder on Shared storage, whose Method is Send.
ThreadSend ==
    /\ MayOperate
    /\ \E t \in Threads, u \in Threads :
          /\ t # u /\ Holds(t)
          /\ builder[t].TStorage = "Shared"
          /\ builder' = [builder EXCEPT ![u] = builder[t], ![t] = Moved]
          /\ hist' = Append(hist, ThreadOp(t, "send", "-", "-", <<>>))
          /\ UNCHANGED <<facade, TStack, pc, ret, calls>>

ThreadIntoValue ==
    /\ pc = "live"
    /\ \E t \in Threads, d \in DefaultFns :
          /\ Holds(t)
          /\ LET r == into_value(builder[t], Closure(d, "seeded"))
             IN  /\ pc' = IF r.fault THEN "panic" ELSE "done"
                 /\ builder' = [builder EXCEPT ![t] = Moved]
                 /\ ret' = [variant |-> "IntoValue", value |-> r.value]
                 /\ calls' = calls \o r.ran
                 /\ hist' = Append(hist, ThreadOp(t, "into_value", "-", d, <<>>))
                 /\ UNCHANGED <<facade, TStack>>

ThreadTryIntoValue ==
    /\ pc = "live"
    /\ \E t \in Threads :
          /\ Holds(t)
          /\ builder[t].state.tag = "Value" \/ Len(hist) <= MaxOps
          /\ LET r == try_into_value(builder[t])
             IN  /\ pc' = IF r.fault THEN "panic"
                          ELSE IF r.variant = "Value" THEN "done" ELSE "live"
                 /\ builder' = [builder EXCEPT ![t] = r.builder]
                 /\ ret' = [variant |-> r.variant, value |-> r.value]
                 /\ calls' = calls \o r.ran
                 /\ hist' = Append(hist, ThreadOp(t, "try_into_value", "-", "-", <<>>))
                 /\ UNCHANGED <<facade, TStack>>

NextThreads ==
    \/ ThreadFromSeed \/ ThreadFromValue
    \/ ThreadFluentMut \/ ThreadBoxed \/ ThreadShared \/ ThreadSend
    \/ ThreadIntoValue \/ ThreadTryIntoValue

SpecThreads == InitThreads /\ [][NextThreads]_vars

\* The resolutions in the history that produced a value.
Resolutions ==
    {i \in 1..N : \/ hist[i].op = "into_value"
                  \/ hist[i].op = "try_into_value" /\ i = N /\ pc = "done"}

C25_ValueNeedsNoDefault ==
    [][(Called({"into_value"}) /\ builder.state.tag = "Value") =>
          /\ pc' = "done"
          /\ SelectSeq(JustRan, IsDefaultCall) = <<>>
          /\ ret' = [variant |-> "IntoValue", value |-> builder.state.v \o JustRan]
          /\ Len(JustRan) = Len(Pending(builder.fluent_method))]_vars

C25_Witness ==
    /\ TStack = "Stack" /\ pc = "done" /\ N >= 3
    /\ hist[N].op = "into_value"
    /\ hist[N-1].op \in FluentOps /\ hist[N-2].op \in ValueOps
    /\ ret.value = hist[N-2].v \o calls
    /\ Len(calls) = 1 /\ calls[1].f = hist[N-1].f

(***************************************************************************)
(* C26: application is deferred: no constructor, value, fluent,            *)
(* fluent_mut, boxed or shared call runs a step closure or the default     *)
(* constructor.  Until a resolution no closure has run, the State holds    *)
(* the value or seed exactly as the client passed it, and the step of a    *)
(* fluent call is pending after the call; closures have run only once      *)
(* into_value, or try_into_value on a Value state, has been called.        *)
(***************************************************************************)
C26_DeferredApplication ==
    /\ (pc \in {"new", "live"}) => calls = <<>>
    /\ (pc = "live" /\ builder.state.tag = "Value") => builder.state.v \in Values
    /\ (pc = "live" /\ builder.state.tag = "Seed") =>
          builder.state.s \in Seeds \cup {NoSeed}
    /\ (pc = "live" /\ hist[N].op \in StepOps) =>
          LET pending == Pending(builder.fluent_method)
          IN  Len(pending) >= 1 /\ pending[Len(pending)] = hist[N].f
    /\ (calls # <<>>) =>
          /\ pc = "done"
          /\ hist[N].op \in {"into_value", "try_into_value"}
          /\ (hist[N].op = "try_into_value" => ret.variant = "Value")

C26_Witness ==
    /\ TStack = "Stack" /\ pc = "live" /\ N = MaxOps + 1
    /\ hist[1].op = "from_value"
    /\ hist[2].op \in FluentOps /\ hist[3].op \in ConvOps /\ hist[4].op \in FluentOps
    /\ calls = <<>>
    /\ builder.state = State_Value(hist[1].v)
    /\ Len(Pending(builder.fluent_method)) = 2

(***************************************************************************)
(* C27: inside into_value on a Seed state the default constructor is       *)
(* called exactly once, with the stored seed, before the first pending     *)
(* step runs, and the first step receives the default constructor's        *)
(* result: the value returned is that result with the steps applied to it  *)
(* in the order they ran.                                                  *)
(***************************************************************************)
C27_DefaultBeforeSteps ==
    [][(Called({"into_value"}) /\ builder.state.tag = "Seed") =>
          /\ pc' = "done"
          /\ Len(JustRan) = 1 + Len(Pending(builder.fluent_method))
          /\ JustRan[1] = Tok(hist'[Len(hist')].f,
                              IF Stateful THEN builder.state.s ELSE NoSeed)
          /\ \A i \in 2..Len(JustRan) : IsStepCall(JustRan[i])
          /\ ret'.value = JustRan]_vars

C27_Witness ==
    /\ Stateful /\ TStack = "Stack" /\ pc = "done" /\ N >= 4
    /\ hist[1].op = "from_seed" /\ hist[N].op = "into_value"
    /\ hist[N-1].op \in FluentOps /\ hist[N-2].op \in FluentOps
    /\ calls[1] = Tok(hist[N].f, hist[1].seed)
    /\ calls[2].f = hist[N-2].f
    /\ ret.value = calls

(***************************************************************************)
(* C28: an Override builder holds at most one pending step after any       *)
(* sequence of operations: none when the last operation that set the State *)
(* was a constructor without a step or value, exactly one when it was      *)
(* from_fluent, from_fluent_mut, fluent or fluent_mut.                     *)
(***************************************************************************)
C28_OverrideOnePending ==
    (TStack = "Override" /\ pc = "live") =>
        LET pending == Pending(builder.fluent_method)
            last == CHOOSE k \in 1..N :
                        /\ hist[k].op \in ResetOps \cup FluentOps
                        /\ \A j \in (k+1)..N : hist[j].op \notin ResetOps \cup FluentOps
        IN  /\ Len(pending) <= 1
            /\ (hist[last].op \in StepOps) => pending = <<hist[last].f>>
            /\ (hist[last].op \notin StepOps) => pending = <<>>

C28_Witness ==
    /\ TStack = "Override" /\ pc = "live" /\ N = MaxOps + 1
    /\ hist[1].op \in ConstructFluentOps
    /\ hist[2].op \in FluentOps /\ hist[3].op \in ConvOps /\ hist[4].op \in FluentOps
    /\ hist[4].f # hist[2].f /\ hist[2].f # hist[1].f
    /\ Pending(builder.fluent_method) = <<hist[4].f>>

(***************************************************************************)
(* C29: under the Stack policy every fluent or fluent_mut call adds        *)
(* exactly one pending step, boxed and shared leave the number unchanged   *)
(* and value resets it to zero: the number of pending steps, and so the    *)
(* number of steps run at resolution, is the number of fluent calls (plus  *)
(* one for from_fluent) since construction or the last value call.         *)
(***************************************************************************)
C29_StackStepCount ==
    /\ (TStack = "Stack" /\ pc = "live") =>
          /\ Len(Pending(builder.fluent_method)) =
                Len(SelectSeq(From(hist, LastReset(hist)), IsStep))
          /\ (hist[N].op = "value") => Pending(builder.fluent_method) = <<>>
    /\ (TStack = "Stack" /\ pc = "done" /\ hist[N].op = "into_value") =>
          Len(SelectSeq(calls, IsStepCall)) =
              Len(SelectSeq(From(Before, LastReset(Before)), IsStep))

C29_Witness ==
    /\ TStack = "Stack" /\ pc = "done" /\ N = MaxOps + 2
    /\ hist[1].op \in ConstructFluentOps
    /\ hist[2].op \in FluentOps /\ hist[3].op \in ConvOps /\ hist[4].op \in FluentOps
    /\ hist[N].op = "into_value"
    /\ Len(SelectSeq(calls, IsStepCall)) = 3

(***************************************************************************)
(* C30: boxed and shared change only the representation of the Method:     *)
(* the State is unchanged, a builder without a pending Method still has    *)
(* none (no empty box is made), and a builder with a pending Method holds  *)
(* exactly one, the box around the Method it had.                          *)
(***************************************************************************)
C30_ConversionKeepsContents ==
    [][Called(ConvOps) =>
          /\ pc' = "live"
          /\ builder'.state = builder.state
          /\ (builder.fluent_method = None) => builder'.fluent_method = None
          /\ (builder.fluent_method # None) =>
                builder'.fluent_method =
                    IF hist'[Len(hist')].op = "boxed"
                    THEN BoxedMethod(builder.fluent_method)
                    ELSE SharedMethod(builder.fluent_method)
          /\ builder'.TStorage = IF hist'[Len(hist')].op = "boxed" THEN "Boxed" ELSE "Shared"
          /\ Pending(builder'.fluent_method) = Pending(builder.fluent_method)
          /\ calls' = calls]_vars

C30_Witness ==
    /\ pc = "live" /\ N >= 4
    /\ hist[N].op \in ConvOps /\ hist[N-1].op \in ConvOps
    /\ hist[N-2].op \in FluentOps /\ hist[N-3].op \in ValueOps
    /\ builder.state = State_Value(hist[N-3].v)
    /\ builder.fluent_method.kind \in {"BoxedMethod", "SharedMethod"}
    /\ builder.fluent_method.inner.kind \in {"BoxedMethod", "SharedMethod"}

RECURSIVE Depth(_)
\* The number of erased units (boxes) nested in Method m.
Depth(m) ==
    CASE m.kind = "None" -> 0
      [] m.kind \in {"BoxedMethod", "SharedMethod"} -> 1 + Depth(m.inner)
      [] m.kind = "Apply" -> IF m.inner.some THEN Depth(m.inner.x) ELSE 0
      [] m.kind = "StatefulApply" -> Depth(m.previous)

\* The index of the last of the first i operations of h that set the State
\* and with it made a fresh Method or none.
LastStateOpUpTo(h, i) == CHOOSE k \in 1..i :
                             /\ h[k].op \in StateOps
                             /\ \A j \in (k+1)..i : h[j].op \notin StateOps

\* A Method is pending after the first i operations of h.
PendingAfter(h, i) ==
    LET k == LastStateOpUpTo(h, i)
    IN  IF TStack = "Override" THEN h[k].op \in StepOps
        ELSE \E j \in k..i : h[j].op \in StepOps

\* The conversions among operations from..N that found a Method pending.
ConversionsOfPending(from) ==
    {i \in from..N : i >= 2 /\ hist[i].op \in ConvOps /\ PendingAfter(hist, i - 1)}

\* C31 as stated: the nesting depth of erased units counts every conversion
\* performed while a Method was pending, whatever happened to that Method
\* afterwards (a boxing constructor can only add to it).
C31_DepthCountsAllConversions ==
    (pc = "live") =>
        Depth(builder.fluent_method) >= Cardinality(ConversionsOfPending(1))

(***************************************************************************)
(* C31: one box per conversion, not per step: every boxed or shared call   *)
(* on a builder with a pending Method adds exactly one erased unit around  *)
(* the whole Method (none when no Method is pending), fluent calls under   *)
(* Stack add none, and a call that makes a fresh Method or drops it        *)
(* (value, or fluent under Override) starts again from none.  The nesting  *)
(* depth of the Method equals the number of conversions performed while a  *)
(* Method was pending since the last operation that set the State, plus    *)
(* the one made by a boxing or sharing from_fluent constructor.            *)
(***************************************************************************)
C31_OneBoxPerConversion ==
    [][LET d == Depth(builder.fluent_method)
           dNew == Depth(builder'.fluent_method)
           op == hist'[Len(hist')].op
       IN  (Called(StepOps \cup ResetOps \cup ConvOps) /\ pc' = "live") =>
              /\ (pc = "new") =>
                    dNew = IF op \in ConstructFluentOps
                              /\ builder'.TStorage \in {"Boxed", "Shared"}
                           THEN 1 ELSE 0
              /\ (op \in ConvOps) =>
                    dNew = d + (IF builder.fluent_method.kind = "None" THEN 0 ELSE 1)
              /\ (pc = "live" /\ op \in FluentOps) =>
                    dNew = IF TStack = "Stack" THEN d ELSE 0
              /\ (op = "value") => dNew = 0
              /\ dNew >= Cardinality(ConversionsOfPending(LastStateOpUpTo(hist, N) + 1))']_vars

C31_Witness ==
    /\ TStack = "Stack" /\ pc = "live" /\ N = MaxOps + 1
    /\ hist[1].op \in {"from_seed", "new"}
    /\ hist[2].op = "shared" /\ hist[3].op \in FluentOps /\ hist[4].op = "boxed"
    /\ Depth(builder.fluent_method) = 1
    /\ Len(Pending(builder.fluent_method)) = 1

(***************************************************************************)
(* C32: no reachable Override builder holds State = Value together with a  *)
(* pending Method (value clears the Method, fluent resets the State to a   *)
(* seed); so under Override try_into_value never runs a step and, when it  *)
(* returns the Value variant, the value is exactly the one last given by   *)
(* value or from_value.                                                    *)
(***************************************************************************)
C32_OverrideValueHasNoMethod ==
    (TStack = "Override") =>
        /\ (pc = "live" /\ builder.state.tag = "Value") =>
              /\ builder.fluent_method = None
              /\ hist[LastStateOpUpTo(hist, N)].op \in ValueOps
              /\ builder.state.v = hist[LastStateOpUpTo(hist, N)].v
        /\ (pc = "live" /\ builder.fluent_method # None) => builder.state.tag = "Seed"
        /\ (N >= 1 /\ hist[N].op = "try_into_value") =>
              /\ calls = <<>>
              /\ (pc = "done") =>
                    /\ ret.variant = "Value"
                    /\ hist[LastStateOpUpTo(hist, N)].op \in ValueOps
                    /\ ret.value = hist[LastStateOpUpTo(hist, N)].v

C32_Witness ==
    /\ TStack = "Override" /\ pc = "done" /\ N = MaxOps + 2
    /\ hist[1].op \in ConstructFluentOps
    /\ hist[2].op \in FluentOps /\ hist[3].op = "value" /\ hist[4].op \in ConvOps
    /\ hist[N].op = "try_into_value"
    /\ ret = [variant |-> "Value", value |-> hist[3].v]
    /\ calls = <<>>

\* The closures and the seeds of the entries of h.
ClosuresOf(h) == {h[j].f : j \in 1..Len(h)}
SeedsOf(h) == {h[j].seed : j \in 1..Len(h)}

(***************************************************************************)
(* C33: discarded steps are never executed: a step dropped by a later      *)
(* value call, or replaced by a later fluent / fluent_mut call under       *)
(* Override, is not called by the resolution (the steps called are exactly *)
(* the surviving ones, so a closure given only to discarded steps is never *)
(* called), and a seed given only to discarded calls reaches no closure.   *)
(***************************************************************************)
C33_DiscardedNeverRun ==
    (pc = "done" /\ N >= 2) =>
        LET k == LastStateOpUpTo(hist, N - 1)
            surviving == From(Before, k)
            passed == calls \o ret.value
        IN  /\ SelectSeq(calls, IsStepCall) = StepsOf(surviving)
            /\ \A i \in 1..(k - 1) :
                  (hist[i].op \in StepOps) =>
                      /\ (hist[i].f \notin ClosuresOf(surviving)) =>
                            \A j \in 1..Len(passed) : passed[j].f # hist[i].f
                      /\ (hist[i].seed \in Seeds \ SeedsOf(surviving)) =>
                            \A j \in 1..Len(passed) : passed[j].s # hist[i].seed

C33_Witness ==
    /\ Stateful /\ pc = "done" /\ N = MaxOps + 2
    /\ hist[1].op = "from_fluent_mut" /\ hist[2].op \in FluentOps
    /\ hist[3].op \in {"value"} \cup (IF TStack = "Override" THEN FluentOps ELSE {})
    /\ hist[4].op = "fluent_mut"
    /\ hist[N].op = "into_value"
    /\ hist[4].f \notin {hist[1].f, hist[2].f}
    /\ hist[4].seed \notin {hist[1].seed, hist[2].seed}
    /\ \A j \in 1..Len(calls) : calls[j].f \in DefaultFns \cup {hist[4].f}
    /\ \E j \in 1..Len(calls) : calls[j].f = hist[4].f

RECURSIVE BuildFrom(_, _, _)
\* The builder the builder-to-builder calls h[i..] make of builder b.
BuildFrom(b, h, i) ==
    IF i > Len(h) THEN b ELSE BuildFrom(Operate(b, h[i]), h, i + 1)

\* Other histories a builder of the same facade and policy may have.
OtherHistories ==
    IF Stateful
    THEN {<<Op("from_seed", "s2", "-", <<>>)>>,
          <<Op("from_value", "-", "-", <<Tok("v2", "lit")>>)>>,
          <<Op("from_fluent", "s1", "f1", <<>>), Op("fluent_mut", "s2", "m2", <<>>)>>,
          <<Op("from_fluent_mut", "s2", "m1", <<>>), Op("boxed", "-", "-", <<>>)>>,
          <<Op("from_seed", "s1", "-", <<>>), Op("fluent", "s2", "f1", <<>>),
            Op("shared", "-", "-", <<>>)>>}
    ELSE {<<Op("new", "-", "-", <<>>)>>,
          <<Op("new", "-", "-", <<>>), Op("fluent_mut", NoSeed, "m2", <<>>)>>,
          <<Op("new", "-", "-", <<>>), Op("fluent", NoSeed, "f1", <<>>),
            Op("boxed", "-", "-", <<>>)>>,
          <<Op("new", "-", "-", <<>>), Op("fluent_mut", NoSeed, "m1", <<>>),
            Op("value", "-", "-", <<Tok("v1", "lit")>>), Op("shared", "-", "-", <<>>)>>}

(***************************************************************************)
(* C34: history independence after value: whatever two builders of the     *)
(* same policy went through before (seeds, steps, conversions), after      *)
(* value(v) on both every identical sequence of further calls resolves     *)
(* both to the same value.                                                 *)
(***************************************************************************)
C34_HistoryIndependence ==
    (pc = "done") =>
        \A k \in 2..N :
            (hist[k].op = "value") =>
                \A other \in OtherHistories :
                    LET b2 == BuildFrom(Construct(other[1]), other, 2)
                    IN  ((\E j \in (k+1)..N : hist[j].op = "shared") => MethodIsSend(b2)) =>
                            RunFrom(b2, hist, k) = [pc |-> "done", ret |-> ret]

C34_Witness ==
    /\ pc = "done" /\ N = MaxOps + 2
    /\ hist[1].op \in ConstructFluentOps
    /\ hist[2].op = "value" /\ hist[3].op \in FluentOps /\ hist[4].op = "shared"
    /\ hist[N].op = "into_value"
    /\ \E other \in OtherHistories :
          LET b2 == BuildFrom(Construct(other[1]), other, 2)
          IN  /\ b2.fluent_method # None /\ b2.state.tag = "Seed"
              /\ b2.state # State_Seed(hist[1].seed)
              /\ RunFrom(b2, hist, 2).ret = ret
    /\ ret.value[1] = hist[2].v[1]

(***************************************************************************)
(* The same calls on the boxed-closure StatefulFluentBuilder               *)
(***************************************************************************)
\* The constructor call e of the boxed-closure implementation.
lib_Construct(e) ==
    CASE e.op = "from_seed" -> lib_from_seed(e.seed)
      [] e.op = "from_value" -> lib_from_value(e.v)
      [] e.op = "from_fluent" -> lib_from_fluent(e.seed, lib_Fn(Closure(e.f, "plain")))
      [] e.op = "from_fluent_mut" -> lib_from_fluent_mut(e.seed, Closure(e.f, "plain"))

\* The builder-to-builder call e of the boxed-closure implementation on b.
lib_Operate(b, e) ==
    CASE e.op = "value" -> lib_value(b, e.v)
      [] e.op = "fluent" -> lib_fluent(b, e.seed, lib_Fn(Closure(e.f, "seeded")))
      [] e.op = "fluent_mut" -> lib_fluent_mut(b, e.seed, Closure(e.f, "seeded"))

RECURSIVE lib_RunFrom(_, _, _)
\* The calls h[i..] on the boxed-closure builder b, ending with into_value:
\* what it returns and the closures it runs.
lib_RunFrom(b, h, i) ==
    IF h[i].op = "into_value"
    THEN lib_into_value(b, Closure(h[i].f, "seeded"))
    ELSE lib_RunFrom(lib_Operate(b, h[i]), h, i + 1)

\* The operations both implementations of StatefulFluentBuilder have.
CommonOps == {"from_seed", "from_value", "from_fluent", "from_fluent_mut",
              "value", "fluent", "fluent_mut", "into_value"}

(***************************************************************************)
(* C35: the boxed-closure implementation (lib.rs) and the later one        *)
(* (imp.rs) under the Stack policy are equivalent: for every sequence of   *)
(* from_seed / from_value / from_fluent / value / fluent / fluent_mut      *)
(* calls followed by into_value both return the same value, having called  *)
(* the same closures in the same order, each step with its own seed.       *)
(***************************************************************************)
C35_LibEquivalentToStack ==
    (/\ Stateful /\ TStack = "Stack" /\ EndsWithIntoValue
     /\ \A i \in 1..N : hist[i].op \in CommonOps) =>
        LET r == lib_RunFrom(lib_Construct(hist[1]), hist, 2)
        IN  /\ pc = "done" /\ ~r.fault
            /\ ret.value = r.value
            /\ calls = r.ran

C35_Witness ==
    /\ Stateful /\ TStack = "Stack" /\ pc = "done" /\ N = MaxOps + 2
    /\ hist[1].op = "from_fluent" /\ hist[2].op = "fluent_mut"
    /\ hist[3].op = "fluent" /\ hist[4].op = "fluent_mut"
    /\ hist[N].op = "into_value"
    /\ hist[2].seed # hist[1].seed /\ hist[3].seed # hist[2].seed
    /\ hist[4].f # hist[2].f
    /\ builder = Moved
    /\ lib_RunFrom(lib_Construct(hist[1]), hist, 2).value = ret.value
    /\ ret.value = <<Tok(hist[5].f, hist[1].seed), Tok(hist[1].f, NoSeed),
                     Tok(hist[2].f, hist[2].seed), Tok(hist[3].f, hist[3].seed),
                     Tok(hist[4].f, hist[4].seed)>>



====
